---- MODULE Spec2Model ----
(***************************************************************************)
(* Model of the asynchronous job pipeline of the ASMRTools and MissAVCrawl *)
(* plugins.                                                                *)
(*                                                                         *)
(*   SpecJob      : one background job of ASMRTools, perform_download_sync *)
(*                  with ProgressManager and SyncDownloaderSimple.         *)
(*   SpecTask     : the same job with the callback that follows it       *)
(*                  (background_download_task).                            *)
(*   SpecRerun    : the download loop run again on the same directory.     *)
(*   SpecProgress : a ProgressManager and the progress reports made to it  *)
(*                  (throttle and ETA).                                    *)
(*   SpecManifest : the resolution of a manifest to its files and the      *)
(*                  filter by target path (SyncDownloaderSimple).          *)
(*   SpecDispatch : the dispatchers (handle_async_download) of both        *)
(*                  plugins, their entry points and the hosting process.   *)
(*   SpecFetch    : one page fetch of MissAVCrawl through the retry        *)
(*                  wrapper (Video._fetch_with_retry).                     *)
(*   SpecBatch    : the batch title enrichment of MissAVCrawl, its worker  *)
(*                  threads and their queue                                *)
(*                  (Client._get_real_video_titles_batch).                 *)
(*   SpecBatchLive: SpecBatch with the calling thread scheduled fairly.    *)
(*                                                                         *)
(* Sizes are counted in chunks: one unit is one chunk of iter_content.     *)
(* A progress value is the exact fraction <<num, den>> (percent).          *)
(* A title, file name or path is the sequence of its characters.           *)
(***************************************************************************)
EXTENDS Integers, Sequences, FiniteSets, TLC

(* ------------------------------ bounds -------------------------------- *)

\* Longest manifest (number of files of the work).
MaxItems == 2

\* Most chunks one response stream delivers.
MaxChunks == 2

\* Seconds the job may take (the clock stops advancing there).
MaxElapsed == 30

\* time.time() when the job starts (seconds since the epoch, far from 0).
StartTime == 1000

\* Steps of background work a job takes in the dispatcher's model.
BgSteps == 2

\* Runs of the same job on one download directory.
MaxRuns == 2

\* Longest manifest of the jobs whose callback is followed (SpecTask).
MaxTaskItems == 1

\* Progress reports with arbitrary arguments made to a ProgressManager
\* (SpecProgress), and reports after them that repeat the last one.
MaxReports == 3
MaxRepeats == 14

\* total_bytes of the jobs reported (0: no sizes known), the bytes one
\* report adds, and the seconds that pass before a report.
ReportTotals == {0, 1000}
ReportSteps == {0, 6, 500}
ReportDts == {0, 2, 10, 30}

\* Most tracks (folders and files) of a manifest that is resolved.
MaxNodes == 3

\* Titles of the tracks of those manifests: "a", "a/b", " ." and ".b? ".
Titles == {<<"a">>, <<"a", "/", "b">>, <<" ", ".">>, <<".", "b", "?", " ">>}

\* Target paths of the requests: "", "/", "a", "/a/", "a/a_b" and
\* "unnamed_file".
TargetPaths == {<<>>, <<"/">>, <<"a">>, <<"/", "a", "/">>,
                <<"a", "/", "a", "_", "b">>,
                <<"u", "n", "n", "a", "m", "e", "d", "_", "f", "i", "l", "e">>}

\* File names and declared sizes (0: unknown) of the manifests tried.
FileNames == {"a", "b"}
FileSizes == {0, 2}

\* Seconds that may pass between two chunks.
DtSet == {0, 30}

\* Largest max_retries a caller of _fetch_with_retry passes, or the
\* network configuration holds.
MaxRetries == 3

\* Most URLs of a batch whose titles are fetched.
MaxUrls == 2

\* The URLs of the batches (a batch may name a URL twice) and the titles a
\* detail page gives.
Urls == {"u1", "u2"}
VideoTitles == {"t1"}

\* What a destination may hold when a job starts ("data": the whole content,
\* st_size > 0). A transfer leaves a file "empty" (st_size = 0, fetched like
\* one that is absent), "partial" (some chunks, st_size > 0) or "data".
DirContents == {"absent", "data"}

(* --------------------------- program constants ------------------------ *)

\* ASMRConfig.progress_update_interval (default).
update_interval == 30

\* Seconds between two "active" progress events of one file.
ActiveEventPeriod == 2

\* Samples kept in _progress_history.
HistoryCap == 15

\* Samples of the history that _calculate_eta looks at.
EtaWindow == 8

\* Seconds the samples looked at must span for an estimate.
MinTimeSpan == 3

\* max_concurrent as the search passes it to _get_real_video_titles_batch;
\* the batches tried have max_concurrent from 1 up to it.
MaxConcurrent == 2

\* max_retries of _fetch_with_retry when neither the caller nor the network
\* configuration gives one.
DefaultRetries == 3

VARIABLES
  \* ---- the background job (perform_download_sync) ----
  pc,                   \* position in perform_download_sync
  all_files,            \* the manifest: sequence of [filename, size, url]
  now,                  \* time.time()
  storeOK,              \* the progress file can be written
  progress_manager,     \* FALSE: None, TRUE: constructed
  workInfoDict,         \* work_info parsed to a dict
  snapshots,            \* the snapshots persisted to the job's progress file
  last_update_time,     \* ProgressManager.last_update_time
  hasLastProgress,      \* hasattr(self, '_last_progress')
  last_progress,        \* ProgressManager._last_progress
  history,              \* ProgressManager._progress_history
  last_eta_seconds,     \* ProgressManager._last_eta_seconds
  eta,                  \* eta_str of the last update_download_progress
  completed_files,      \* closure of progress_callback
  completed_files_list,
  downloaded_bytes,
  current_file,
  idx,                  \* download_tracks: index of the item in the loop
  attempts,             \* indices handed to download_single_file, in order
  itemStatus,           \* how each item ended
  completed_downloads,
  failed_downloads,
  downloaded_size,      \* download_single_file: bytes of the current stream
  last_progress_time,
  disk,                 \* each item's destination: absent, empty or data
  file_requests,        \* session.get calls for files made in this run
  meta_requests,        \* session.post/get calls made for login, work and tracks
  transferred,          \* bytes were received from the network in this run
  run,                  \* which run of the job on this download directory
  populated,            \* the run before left every item succeeded and on disk
  posts,                \* the callbacks POSTed by background_download_task
  reports,              \* calls of update_download_progress made so far
  raised,               \* an exception reached perform_download_sync's handler
  result,               \* what perform_download_sync returned
  \* ---- the resolution of a manifest (download_tracks) ----
  mstep,                \* idle, tracks (given), files (extracted and filtered)
  tracks,               \* the manifest: a sequence of [type, title, children]
  target_path,          \* the target path of the request
  extracted,            \* what _extract_files_from_tracks returned
  filtered,             \* all_files after the filter by target path
  \* ---- the dispatcher and its process ----
  plugin,               \* "ASMRTools" or "MissAVCrawl"
  input,                \* what main() reads from stdin: empty, badjson, request
  command,              \* request_data.get('command')
  callbackConfigured,   \* CALLBACK_BASE_URL and PLUGIN_NAME_FOR_CALLBACK are set
  video_title,          \* MissAVCrawl: the title fetched for the ack
  stderr,               \* warnings printed to stderr
  target,               \* request_data's work_id / url: "absent", "" or an id
  dpc,                  \* position of the dispatcher (main, handle_async_download)
  stdout,               \* the responses printed, in order
  task_ids,             \* number of task ids generated (uuid4)
  events,               \* remote fetches, the ack and background steps, in order
  tracker,              \* MissAVCrawl: the ProgressTracker was constructed
  progressFile,         \* a progress file of the job exists
  thread,               \* the background thread: none, running, finished, killed
  daemon,               \* download_thread.daemon
  bgLeft,               \* steps the background thread still has to take
  procAlive,            \* the plugin's process has not exited
  \* ---- a page fetch through the retry wrapper (_fetch_with_retry) ----
  fpc,                  \* position in _fetch_with_retry
  retries_given,        \* the caller passed max_retries
  max_retries,          \* max_retries (0 while None)
  network_config,       \* the network_config module was imported
  attempt,              \* the loop variable of range(max_retries)
  fetch_calls,          \* calls of core.fetch made
  errors,               \* str(e) of every attempt that failed, in order
  sleeps,               \* the arguments of time.sleep, in order
  last_error,           \* last_error ("": None)
  content,              \* the page returned ("": none)
  error_msg,            \* the ValueError raised: [retries, last] (retries -1: none)
  \* ---- the batch title enrichment (_get_real_video_titles_batch) ----
  bpc,                  \* position of the calling thread
  video_urls,           \* the URLs given
  max_concurrent,
  url_queue,            \* the Queue: positions in video_urls, head first
  unfinished_tasks,     \* Queue.unfinished_tasks
  results,              \* the dict: URL -> title ("absent": no key)
  wpc,                  \* position of each worker thread
  wentry,               \* what the worker dequeued in this iteration (0: nothing)
  taken,                \* times each queue entry was dequeued
  fetched,              \* the title each entry's fetch gave ("none": not fetched)
  task_done_calls,      \* calls of url_queue.task_done()
  started,              \* threads started
  joined,               \* joins that returned
  timed_out             \* a join returned on its timeout

jobVars == <<pc, all_files, now, storeOK, progress_manager, workInfoDict,
             snapshots, last_update_time, hasLastProgress, last_progress,
             history, last_eta_seconds, eta,
             completed_files, completed_files_list, downloaded_bytes,
             current_file, idx, attempts, itemStatus, completed_downloads,
             failed_downloads, downloaded_size, last_progress_time, disk,
             file_requests, meta_requests, transferred, run, populated, posts,
             reports, raised, result>>

reqVars == <<plugin, input, command, callbackConfigured, target>>

dispVars == <<reqVars, dpc, stdout, task_ids, events, tracker, progressFile,
              thread, daemon, bgLeft, procAlive, video_title, stderr>>

manVars == <<mstep, tracks, target_path, extracted, filtered>>

fetchVars == <<fpc, retries_given, max_retries, network_config, attempt,
               fetch_calls, errors, sleeps, last_error, content, error_msg>>

batchVars == <<bpc, video_urls, max_concurrent, url_queue, unfinished_tasks,
               results, wpc, wentry, taken, fetched, task_done_calls, started,
               joined, timed_out>>

extVars == <<fetchVars, batchVars>>

vars == <<jobVars, dispVars, manVars, extVars>>

\* No manifest is being resolved.
ManIdle ==
  /\ mstep = "idle"
  /\ tracks = <<>>
  /\ target_path = <<>>
  /\ extracted = <<>>
  /\ filtered = <<>>

NoErrorMsg == [retries |-> 0 - 1, last |-> ""]

\* No page is being fetched.
FetchIdle ==
  /\ fpc = "idle"
  /\ retries_given = FALSE
  /\ max_retries = 0
  /\ network_config = FALSE
  /\ attempt = 0
  /\ fetch_calls = 0
  /\ errors = <<>>
  /\ sleeps = <<>>
  /\ last_error = ""
  /\ content = ""
  /\ error_msg = NoErrorMsg

\* No batch of titles is being fetched.
BatchIdle ==
  /\ bpc = "idle"
  /\ video_urls = <<>>
  /\ max_concurrent = 0
  /\ url_queue = <<>>
  /\ unfinished_tasks = 0
  /\ results = <<>>
  /\ wpc = <<>>
  /\ wentry = <<>>
  /\ taken = <<>>
  /\ fetched = <<>>
  /\ task_done_calls = 0
  /\ started = 0
  /\ joined = 0
  /\ timed_out = FALSE

ExtIdle == FetchIdle /\ BatchIdle

(* ------------------------------ helpers ------------------------------- *)

Abs(x) == IF x < 0 THEN -x ELSE x

RECURSIVE SeqsUpTo(_, _)
SeqsUpTo(S, n) ==
  IF n = 0 THEN {<<>>}
  ELSE LET shorter == SeqsUpTo(S, n - 1)
       IN  shorter \cup {Append(s, x) : s \in {t \in shorter : Len(t) = n - 1}, x \in S}

Contains(s, x) == \E i \in 1..Len(s) : s[i] = x

\* p <= q for fractions with positive denominators.
FracLeq(p, q) == p[1] * q[2] <= q[1] * p[2]

\* url: the track carries a mediaDownloadUrl.
Items == [filename : FileNames, size : FileSizes, url : BOOLEAN]

(* -------------------- get_file_size_from_structure -------------------- *)

\* Every file of the manifest lies in a folder of its own: the search walks
\* the folders in order and returns the first size > 0 found under the name.
RECURSIVE search_structure(_, _, _)
search_structure(files, filename, i) ==
  IF i > Len(files) THEN 0
  ELSE IF files[i].filename = filename /\ files[i].size > 0 THEN files[i].size
  ELSE search_structure(files, filename, i + 1)

get_file_size_from_structure(filename) == search_structure(all_files, filename, 1)

file_sizes(filename) == get_file_size_from_structure(filename)

RECURSIVE SumSizes(_, _)
SumSizes(names, i) ==
  IF i > Len(names) THEN 0
  ELSE file_sizes(names[i]) + SumSizes(names, i + 1)

RECURSIVE total_bytes_from(_)
total_bytes_from(i) ==
  IF i > Len(all_files) THEN 0
  ELSE file_sizes(all_files[i].filename) + total_bytes_from(i + 1)

total_bytes == total_bytes_from(1)

total_files == Len(all_files)

(* --------------------------- ProgressManager -------------------------- *)

pmVars == <<last_update_time, hasLastProgress, last_progress, history,
            last_eta_seconds, eta>>
cbVars == <<completed_files, completed_files_list, downloaded_bytes, current_file>>
loopVars == <<idx, attempts, itemStatus, completed_downloads, failed_downloads>>
fileVars == <<downloaded_size, last_progress_time, disk, file_requests,
              transferred>>
taskVars == <<run, populated, posts, reports>>

NoProgress == <<0, 1>>

Snapshot(status, hasProgress, progress, reason, cf, cfl, db, t) ==
  [status |-> status, hasProgress |-> hasProgress, progress |-> progress,
   reason |-> reason, completedFiles |-> cf, completedFilesList |-> cfl,
   downloadedBytes |-> db]

\* update_progress: the write is attempted; a failure is printed and swallowed.
update_progress(snap) ==
  IF storeOK THEN Append(snapshots, snap) ELSE snapshots

update_starting ==
  update_progress(Snapshot("Starting", TRUE, <<0, 1>>, "", 0, <<>>, 0, now))

\* Mutant: the Preparing snapshot is written only when there is a file to fetch.
update_preparing_IfFiles ==
  IF total_files > 0
  THEN update_progress(Snapshot("Preparing", TRUE, <<5, 1>>, "", 0, <<>>, 0, now))
  ELSE snapshots

update_preparing ==
  update_progress(Snapshot("Preparing", TRUE, <<5, 1>>, "", 0, <<>>, 0, now))

\* Mutant: the snapshot of a success keeps the status "Downloading".
update_success_Downloading(download_result) ==
  update_progress(Snapshot("Downloading", TRUE, <<100, 1>>, "",
                           download_result.success_count,
                           download_result.completed_downloads, 0, now))

update_success(download_result) ==
  update_progress(Snapshot("Succeed", TRUE, <<100, 1>>, "",
                           download_result.success_count,
                           download_result.completed_downloads, 0, now))

update_failed(reason) ==
  update_progress(Snapshot("Failed", FALSE, NoProgress, reason, 0, <<>>, 0, now))

\* abs(progress_percent - _last_progress) > 1.0
MovedMoreThanOnePoint(p, q) ==
  Abs(p[1] * q[2] - q[1] * p[2]) > p[2] * q[2]

(* ------------------------------ the ETA ------------------------------- *)

Min(a, b) == IF a < b THEN a ELSE b

Digit(d) ==
  CASE d = 0 -> "0" [] d = 1 -> "1" [] d = 2 -> "2" [] d = 3 -> "3"
    [] d = 4 -> "4" [] d = 5 -> "5" [] d = 6 -> "6" [] d = 7 -> "7"
    [] d = 8 -> "8" [] d = 9 -> "9"

\* str(n) for n >= 0
RECURSIVE ToStr(_)
ToStr(n) == IF n < 10 THEN Digit(n) ELSE ToStr(n \div 10) \o Digit(n % 10)

\* f"{n:02d}" for n >= 0
Pad2(n) == IF n < 10 THEN "0" \o Digit(n) ELSE ToStr(n)

\* The string returned for eta_seconds (both estimators end with it).
format_eta(eta_seconds) ==
  IF eta_seconds > 7200 THEN ">2h"
  ELSE IF eta_seconds > 3600
  THEN ToStr(eta_seconds \div 3600) \o "h"
         \o Pad2((eta_seconds % 3600) \div 60) \o "m"
  ELSE Pad2(eta_seconds \div 60) \o ":" \o Pad2(eta_seconds % 60)

\* Mutant: the history is never cut.
history_append_Unbounded(hist, sample) == Append(hist, sample)

\* self._progress_history.append(...); keep the last 15.
history_append(hist, sample) ==
  LET h == Append(hist, sample)
  IN  IF Len(h) > HistoryCap THEN SubSeq(h, Len(h) - HistoryCap + 1, Len(h)) ELSE h

\* Mutant: the estimate looks at the whole history.
recent_history_All(hist) == hist

\* self._progress_history[-min(8, len(self._progress_history)):]
recent_history(hist) ==
  SubSeq(hist, Len(hist) - Min(EtaWindow, Len(hist)) + 1, Len(hist))

(* The two divisions of the byte estimate are divisions of IEEE-754       *)
(* doubles (53 bits, round to nearest), then int() truncates. They are    *)
(* computed here exactly, for operands below 2^26:                        *)
(*   q = bytes_diff / total_time_diff = A/B is rounded to x = N / 2^t     *)
(*   with 2^52 <= N < 2^53, and x - q = rho / (B * 2^t), where rho is     *)
(*   found from (A * 2^t) mod B;                                          *)
(*   remaining / x is then E / (1 + eps) for the exact E = remaining*B/A  *)
(*   and eps = rho / (A * 2^t). When E is not an integer the truncation   *)
(*   is floor(E). When E is an integer k the quotient rounds to k, or,    *)
(*   when x > q and k - k/(1+eps) exceeds half the spacing of the doubles *)
(*   below k, to the double before k, and int() gives k - 1.              *)

\* floor(log2(a / b)) for a, b > 0
RECURSIVE Log2Floor(_, _)
Log2Floor(a, b) ==
  IF a >= 2 * b THEN 1 + Log2Floor(a, 2 * b)
  ELSE IF a < b THEN Log2Floor(2 * a, b) - 1
  ELSE 0

\* 2^n mod m
RECURSIVE PowMod(_, _)
PowMod(n, m) == IF n = 0 THEN 1 % m ELSE (2 * PowMod(n - 1, m)) % m

RECURSIVE Gcd(_, _)
Gcd(a, b) == IF b = 0 THEN a ELSE Gcd(b, a % b)

IsPowerOfTwo(k) == k > 0 /\ (k = 1 \/ Log2Floor(k - 1, 1) < Log2Floor(k, 1))

\* x * 2^e > y for x, y > 0
RECURSIVE ScaledGreater(_, _, _)
ScaledGreater(x, y, e) ==
  IF e = 0 THEN x > y
  ELSE IF e > 0 THEN x > y \/ ScaledGreater(2 * x, y, e - 1)
  ELSE x > y /\ ScaledGreater(x, 2 * y, e + 1)

\* The numerator rho of the error of the double nearest to a/b (lowest
\* terms): double(a/b) - a/b = rho / (b * 2^t), t = 52 - floor(log2(a/b)).
RoundingError(a, b) ==
  LET t == 52 - Log2Floor(a, b)
      m == ((a % b) * PowMod(t, b)) % b
  IN  IF m = 0 THEN 0 ELSE IF 2 * m > b THEN b - m ELSE 0 - m

\* bytes_per_second = bytes_diff / total_time_diff
\* eta_seconds = int(remaining_bytes / bytes_per_second)
eta_by_bytes(remaining_bytes, bytes_diff, total_time_diff) ==
  LET g == Gcd(bytes_diff, total_time_diff)
      a == bytes_diff \div g
      b == total_time_diff \div g
      k == (remaining_bytes * b) \div a
      rho == RoundingError(a, b)
      d == 1 + Log2Floor(a, b) - Log2Floor(k, 1)
             + (IF IsPowerOfTwo(k) THEN 1 ELSE 0)
  IN  IF (remaining_bytes * b) % a # 0 THEN k
      ELSE IF rho > 0 /\ ScaledGreater(rho * k, a, d) THEN k - 1
      ELSE k

(* int(0.7 * last + 0.3 * new) is computed in doubles as well. The double *)
(* 0.7 is N7 / 2^53 with N7 = 0x16666666666666 and the double 0.3 is      *)
(* N3 / 2^54 with N3 = 0x13333333333333; each product is rounded to 53    *)
(* bits, the sum of the two is rounded once more. In units of 2^-54 the   *)
(* products differ from 0.7 * last and 0.3 * new by small numbers, found  *)
(* from the low bits of N7 and N3; when (7 * last + 3 * new) / 10 is an   *)
(* integer K and the sum lies more than half the spacing of the doubles   *)
(* below K under it, int() gives K - 1.                                   *)

RECURSIVE Pow2(_)
Pow2(n) == IF n = 0 THEN 1 ELSE 2 * Pow2(n - 1)

\* The j low bits of a 53-bit mantissa whose hexadecimal digits all equal
\* nibble (6 for 0.7, 3 for 0.3), j <= 52.
RECURSIVE LowBits(_, _)
LowBits(nibble, j) ==
  IF j = 0 THEN 0
  ELSE LowBits(nibble, j - 1)
         + ((nibble \div Pow2((j - 1) % 4)) % 2) * Pow2(j - 1)

\* The product mantissa * n (mantissa of 53 bits, 2^52 * lead <= mantissa * n,
\* lead10 = 10 * mantissa / 2^52) rounded to 53 bits, minus the product.
ProductRounding(nibble, lead10, n) ==
  LET j == Log2Floor(lead10 * n, 10)
      r == (LowBits(nibble, j) * (n % Pow2(j))) % Pow2(j)
      odd == ((LowBits(nibble, j + 1) * (n % Pow2(j + 1))) % Pow2(j + 1))
               >= Pow2(j)
      up == j > 0 /\ (2 * r > Pow2(j) \/ (2 * r = Pow2(j) /\ odd))
  IN  (IF up THEN Pow2(j) ELSE 0) - r

\* int(0.7 * last + 0.3 * eta_seconds) for last > 0, eta_seconds >= 0
weighted_average(last, eta_seconds) ==
  LET K == (7 * last + 3 * eta_seconds) \div 10
      \* 10 * (0.7 * last + 0.3 * eta_seconds as computed, minus the exact
      \* value), in units of 2^-54
      delta10 == 10 * (2 * ProductRounding(6, 14, last)
                         + (IF eta_seconds > 0
                            THEN ProductRounding(3, 12, eta_seconds) ELSE 0))
                   - 8 * last - 2 * eta_seconds
      half == IF IsPowerOfTwo(K) THEN Pow2(Log2Floor(K, 1))
              ELSE Pow2(Log2Floor(K, 1) + 1)
  IN  IF (7 * last + 3 * eta_seconds) % 10 # 0 THEN K
      ELSE IF 0 - delta10 > 10 * half THEN K - 1
      ELSE K

\* The smoothing of _calculate_eta: when the new estimate is more than 40 %
\* of the last one away from it, int(0.7 * last + 0.3 * new).
smoothed(eta_seconds, last) ==
  IF last > 0 /\ 10 * Abs(eta_seconds - last) > 4 * last
  THEN weighted_average(last, eta_seconds)
  ELSE eta_seconds

\* A percentage <<numerator, denominator>> that is a whole number.
Whole(p) == p[1] % p[2] = 0

\* _calculate_eta_by_progress: int((100 - current) / (progress diff / time)),
\* the strings it can return. Whole percentages are doubles without error
\* and the two divisions are those of the byte estimate. A percentage that
\* is not a whole number is a rounded double itself: when the exact quotient
\* is an integer k the truncation gives k or k - 1, and both are kept.
calculate_eta_by_progress(recent, current_progress, total_time_diff) ==
  LET p1 == recent[1].progress
      p2 == recent[Len(recent)].progress
      total_progress_diff == (p2[1] * p1[2] - p1[1] * p2[2]) * current_progress[2]
      remaining_progress == (100 * current_progress[2] - current_progress[1])
                              * p1[2] * p2[2]
      k == (remaining_progress * total_time_diff) \div total_progress_diff
  IN  IF total_progress_diff <= 0 THEN {"--:--"}
      ELSE IF Whole(p1) /\ Whole(p2) /\ Whole(current_progress)
      THEN {format_eta(eta_by_bytes(remaining_progress, total_progress_diff,
                                    total_time_diff))}
      ELSE IF (remaining_progress * total_time_diff) % total_progress_diff = 0
      THEN {format_eta(k - 1), format_eta(k)}
      ELSE {format_eta(k)}

\* _calculate_eta(current_progress, current_time) on the history hist: the
\* strings it can return, each with the value left in _last_eta_seconds.
calculate_eta(hist, current_progress, last) ==
  LET unknown == {[str |-> "--:--", last |-> last]}
      recent == recent_history(hist)
      newest == recent[Len(recent)]
      total_time_diff == newest.time - recent[1].time
      bytes_diff == newest.downloaded_bytes - recent[1].downloaded_bytes
      remaining_bytes == newest.total_bytes - newest.downloaded_bytes
      by_progress == {[str |-> str, last |-> last] :
                        str \in calculate_eta_by_progress(recent, current_progress,
                                                          total_time_diff)}
  IN  IF current_progress[1] <= 0 \/ current_progress[1] >= 100 * current_progress[2]
      THEN unknown
      ELSE IF Len(hist) < 2 THEN unknown
      ELSE IF Len(recent) < 2 THEN unknown
      ELSE IF total_time_diff < MinTimeSpan THEN unknown
      ELSE IF newest.total_bytes > 0 /\ newest.downloaded_bytes > 0
      THEN IF bytes_diff > 0
           THEN IF remaining_bytes > 0
                THEN LET e == smoothed(eta_by_bytes(remaining_bytes, bytes_diff,
                                                    total_time_diff), last)
                     IN  {[str |-> format_eta(e), last |-> e]}
                ELSE {[str |-> "00:00", last |-> last]}
           ELSE by_progress
      ELSE by_progress

\* The throttle of update_download_progress at time t for progress p.
should_update_file(p, t) ==
  \/ t - last_update_time >= update_interval
  \/ ~hasLastProgress
  \/ MovedMoreThanOnePoint(p, last_progress)

\* update_download_progress. self._completed_files_list is the copy of the
\* caller's list, which only grows: the snapshot carries the caller's list.
update_download_progress(p, cf, cfl, db, tb, t) ==
  LET forced == ~hasLastProgress \/ MovedMoreThanOnePoint(p, last_progress)
      hist == history_append(history, [time |-> t, progress |-> p,
                                       downloaded_bytes |-> db,
                                       total_bytes |-> tb])
  IN  /\ history' = hist
      /\ \E e \in calculate_eta(hist, p, last_eta_seconds) :
            /\ last_eta_seconds' = e.last
            /\ eta' = e.str
      /\ hasLastProgress' = (hasLastProgress \/ forced)
      /\ last_progress' = IF forced THEN p ELSE last_progress
      /\ IF should_update_file(p, t)
         THEN /\ last_update_time' = t
              /\ snapshots' = update_progress(
                   Snapshot("Downloading", TRUE, p, "", cf, cfl, db, t))
         ELSE UNCHANGED <<last_update_time, snapshots>>

(* --------------------- perform_download_sync -------------------------- *)

\* overall_progress of progress_callback, in percent.
overall_progress(db, cf) ==
  IF total_bytes > 0 THEN <<db * 100, total_bytes>>
  ELSE IF total_files > 0 THEN <<cf * 100, total_files>>
  ELSE <<0, 1>>

\* progress_callback(progress_info) called at time t.
progress_callback(status, filename, completed_length, t) ==
  LET settled == status \in {"complete", "skipped"}
      fresh == settled /\ ~Contains(completed_files_list, filename)
      cf == IF settled THEN completed_files + 1 ELSE completed_files
      cfl == IF fresh THEN Append(completed_files_list, filename)
             ELSE completed_files_list
      db == IF fresh THEN downloaded_bytes + file_sizes(filename)
            ELSE IF status = "active"
                 THEN SumSizes(completed_files_list, 1) + completed_length
                 ELSE downloaded_bytes
  IN  /\ completed_files' = cf
      /\ completed_files_list' = cfl
      /\ downloaded_bytes' = db
      /\ current_file' = filename
      /\ update_download_progress(overall_progress(db, cf), cf, cfl, db,
                                  total_bytes, t)

NoResult == [status |-> "none", reason |-> "", failedFiles |-> <<>>,
             completedFiles |-> <<>>, successCount |-> 0, failedCount |-> 0,
             totalTracks |-> 0]

FailedResult(reason, failed) ==
  [NoResult EXCEPT !.status = "Failed", !.reason = reason, !.failedFiles = failed]

\* A failed step that the code reports itself: update_failed, return.
ReturnFailed(reason) ==
  /\ snapshots' = (IF progress_manager THEN update_failed(reason) ELSE snapshots)
  /\ result' = FailedResult(reason, <<>>)
  /\ pc' = "done"
  /\ UNCHANGED raised

\* except Exception as e: update_failed if there is a progress manager, return.
ExceptHandler ==
  /\ snapshots' = (IF progress_manager THEN update_failed("exception") ELSE snapshots)
  /\ result' = FailedResult("exception", <<>>)
  /\ raised' = TRUE
  /\ pc' = "done"

\* progress_manager = ProgressManager(plugin_dir): mkdir of the results
\* directory or ASMRConfig.from_env() may raise.
Construct ==
  /\ pc = "construct"
  /\ \/ /\ progress_manager' = TRUE
        /\ pc' = "starting"
        /\ UNCHANGED <<snapshots, result, raised>>
     \/ /\ ExceptHandler
        /\ UNCHANGED progress_manager
  /\ UNCHANGED <<all_files, meta_requests, taskVars, now, storeOK, workInfoDict, pmVars, cbVars,
                 loopVars, fileVars, dispVars, manVars, extVars>>

\* update_starting: the ETA history and the last estimate are reset, the
\* "Starting" snapshot is written.
UpdateStarting ==
  /\ pc = "starting"
  /\ history' = <<>>
  /\ last_eta_seconds' = 0
  /\ snapshots' = update_starting
  /\ pc' = "config"
  /\ UNCHANGED <<all_files, meta_requests, taskVars, now, storeOK, progress_manager, workInfoDict,
                 last_update_time, hasLastProgress, last_progress, eta,
                 cbVars, loopVars, fileVars, raised, result, dispVars, manVars, extVars>>

\* A remote or local step before the manifest is known: it succeeds, the
\* code reports its failure (reason), or it raises. A remote step is one
\* call of the session (calls = 1), whatever it answers.
SetupStep(at, next, reason, calls) ==
  /\ pc = at
  /\ meta_requests' = meta_requests + calls
  /\ \/ /\ pc' = next
        /\ UNCHANGED <<snapshots, result, raised>>
     \/ /\ reason # ""
        /\ ReturnFailed(reason)
     \/ ExceptHandler
  /\ UNCHANGED <<all_files, taskVars, now, storeOK, progress_manager, workInfoDict,
                 pmVars, cbVars, loopVars, fileVars, dispVars, manVars, extVars>>

Config == SetupStep("config", "login", "Invalid configuration", 0)

\* session.post(login_url): one call; a status other than 200 ends the job.
Login == SetupStep("login", "work", "Login failed", 1)

\* session.get(work_url): work_info is whatever JSON the server sent.
Work ==
  /\ pc = "work"
  /\ meta_requests' = meta_requests + 1
  /\ \/ /\ pc' = "tracks"
        /\ workInfoDict' \in BOOLEAN
        /\ UNCHANGED <<snapshots, result, raised>>
     \/ /\ ReturnFailed("Work not found")
        /\ UNCHANGED workInfoDict
     \/ /\ ExceptHandler
        /\ UNCHANGED workInfoDict
  /\ UNCHANGED <<all_files, taskVars, now, storeOK, progress_manager,
                 pmVars, cbVars, loopVars, fileVars, dispVars, manVars, extVars>>

\* session.get(tracks_url). update_failed(..., work_info) reads work_info.get
\* before it writes: it raises when work_info is no dict.
Tracks ==
  /\ pc = "tracks"
  /\ meta_requests' = meta_requests + 1
  /\ \/ /\ pc' = "prepare"
        /\ UNCHANGED <<snapshots, result, raised>>
     \/ IF workInfoDict THEN ReturnFailed("No tracks found for this work")
        ELSE ExceptHandler
     \/ ExceptHandler
  /\ UNCHANGED <<all_files, taskVars, now, storeOK, progress_manager, workInfoDict,
                 pmVars, cbVars, loopVars, fileVars, dispVars, manVars, extVars>>

\* _extract_files_from_tracks .. update_preparing .. total_bytes.
Prepare ==
  /\ pc = "prepare"
  /\ IF workInfoDict
     THEN /\ snapshots' = update_preparing
          /\ pc' = "download_tracks"
          /\ UNCHANGED <<result, raised>>
     ELSE ExceptHandler
  /\ UNCHANGED <<all_files, meta_requests, taskVars, now, storeOK, progress_manager, workInfoDict,
                 pmVars, cbVars, loopVars, fileVars, dispVars, manVars, extVars>>

(* ---------------- SyncDownloaderSimple.download_tracks ----------------- *)

\* download_dir.mkdir(parents=True, exist_ok=True) may raise; then the loop
\* over all_files starts.
DownloadTracksBegin ==
  /\ pc = "download_tracks"
  /\ \/ /\ pc' = (IF Len(all_files) = 0 THEN "finish" ELSE "item")
        /\ UNCHANGED <<snapshots, result, raised>>
     \/ ExceptHandler
  /\ UNCHANGED <<all_files, meta_requests, taskVars, now, storeOK, progress_manager, workInfoDict,
                 pmVars, cbVars, loopVars, fileVars, dispVars, manVars, extVars>>

\* Mutant: the loop stops at the first item that fails.
NextIndex_BreakOnFailure(i, success) ==
  IF success THEN i + 1 ELSE Len(all_files) + 1

\* The index the loop of download_tracks goes to after item i.
NextIndex(i, success) == i + 1

\* for file_info in all_files: success = download_single_file(...);
\* the name goes to completed_downloads or to failed_downloads.
ItemSettled(success, status) ==
  LET filename == all_files[idx].filename
  IN  /\ completed_downloads' = (IF success THEN Append(completed_downloads, filename)
                                 ELSE completed_downloads)
      /\ failed_downloads' = (IF success THEN failed_downloads
                              ELSE Append(failed_downloads, filename))
      /\ itemStatus' = [itemStatus EXCEPT ![idx] = status]
      /\ idx' = NextIndex(idx, success)
      /\ pc' = (IF NextIndex(idx, success) > Len(all_files) THEN "finish" ELSE "item")

\* Mutant: a file that is already there is fetched again.
SkipsDownload_Never(file) == FALSE

\* full_file_path.exists() and full_file_path.stat().st_size > 0
SkipsDownload(file) == file \in {"partial", "data"}

\* download_single_file up to the response: no URL (return False); the file
\* exists with a size > 0 (skipped, return True); else session.get, which
\* fails or is not 200 (return False), or open(full_file_path, 'wb').
DownloadSingleFile ==
  /\ pc = "item"
  /\ attempts' = Append(attempts, idx)
  /\ IF ~all_files[idx].url
     THEN /\ ItemSettled(FALSE, "failed")
          /\ UNCHANGED <<snapshots, pmVars, cbVars, fileVars>>
     ELSE IF SkipsDownload(disk[idx])
     THEN /\ progress_callback("skipped", all_files[idx].filename, 0, now)
          /\ ItemSettled(TRUE, "skipped")
          /\ UNCHANGED fileVars
     ELSE /\ file_requests' = file_requests + 1
          /\ \/ /\ ItemSettled(FALSE, "failed")
                /\ UNCHANGED <<snapshots, pmVars, cbVars, downloaded_size,
                               last_progress_time, disk, transferred>>
             \/ /\ pc' = "stream"
                /\ itemStatus' = [itemStatus EXCEPT ![idx] = "active"]
                /\ downloaded_size' = 0
                /\ last_progress_time' = 0
                /\ disk' = [disk EXCEPT ![idx] = "empty"]
                /\ UNCHANGED <<snapshots, pmVars, cbVars, idx, transferred,
                               completed_downloads, failed_downloads>>
  /\ UNCHANGED <<all_files, meta_requests, taskVars, now, storeOK, progress_manager, workInfoDict,
                 raised, result, dispVars, manVars, extVars>>

\* for chunk in response.iter_content(...): f.write, count, and report an
\* "active" event when 2 s have passed since the last one.
StreamChunk ==
  /\ pc = "stream"
  /\ downloaded_size < MaxChunks
  /\ \E dt \in DtSet :
       /\ now + dt <= StartTime + MaxElapsed
       /\ now' = now + dt
  /\ downloaded_size' = downloaded_size + 1
  /\ disk' = [disk EXCEPT ![idx] = "partial"]
  /\ transferred' = TRUE
  /\ UNCHANGED file_requests
  /\ IF now' - last_progress_time >= ActiveEventPeriod
     THEN /\ progress_callback("active", all_files[idx].filename,
                               downloaded_size + 1, now')
          /\ last_progress_time' = now'
     ELSE UNCHANGED <<snapshots, pmVars, cbVars, last_progress_time>>
  /\ UNCHANGED <<pc, all_files, meta_requests, taskVars, storeOK, progress_manager, workInfoDict,
                 loopVars, raised, result, dispVars, manVars, extVars>>

\* The stream ends: the file holds what was sent; the "complete" event,
\* return True.
StreamEnd ==
  /\ pc = "stream"
  /\ disk' = [disk EXCEPT ![idx] = IF downloaded_size > 0 THEN "data" ELSE "empty"]
  /\ progress_callback("complete", all_files[idx].filename, downloaded_size, now)
  /\ ItemSettled(TRUE, "complete")
  /\ UNCHANGED <<all_files, meta_requests, taskVars, now, storeOK, progress_manager, workInfoDict,
                 attempts, downloaded_size, last_progress_time, file_requests,
                 transferred, raised, result, dispVars, manVars, extVars>>

\* The transfer raises (except Exception in download_single_file): return
\* False. The file stays as the chunks written so far left it.
StreamRaises ==
  /\ pc = "stream"
  /\ ItemSettled(FALSE, "failed")
  /\ UNCHANGED <<all_files, meta_requests, taskVars, now, storeOK, progress_manager, workInfoDict,
                 snapshots, pmVars, cbVars, attempts, fileVars, raised,
                 result, dispVars, manVars, extVars>>

\* The dict download_tracks returns.
download_result ==
  [total_tracks |-> Len(all_files),
   success_count |-> Len(completed_downloads),
   failed_count |-> Len(failed_downloads),
   completed_downloads |-> completed_downloads,
   failed_downloads |-> failed_downloads]

\* Mutant: the job succeeds only when no item failed.
JobSucceeded_NoFailure(dr) == dr.failed_count = 0

\* if download_result["success_count"] > 0
JobSucceeded(dr) == dr.success_count > 0

\* The final status: update_success or update_failed, and the result returned.
Finish ==
  /\ pc = "finish"
  /\ IF JobSucceeded(download_result)
     THEN /\ snapshots' = update_success(download_result)
          /\ result' = [status |-> "Succeed", reason |-> "",
                        failedFiles |-> download_result.failed_downloads,
                        completedFiles |-> download_result.completed_downloads,
                        successCount |-> download_result.success_count,
                        failedCount |-> download_result.failed_count,
                        totalTracks |-> download_result.total_tracks]
     ELSE /\ snapshots' = update_failed("All downloads failed")
          /\ result' = FailedResult("All downloads failed",
                                    download_result.failed_downloads)
  /\ pc' = "done"
  /\ UNCHANGED <<all_files, meta_requests, taskVars, now, storeOK, progress_manager, workInfoDict,
                 pmVars, cbVars, loopVars, fileVars, raised, dispVars, manVars, extVars>>

\* Mutant: a callback that was not delivered is sent once more.
callback_posts_Retry(payload, configured, delivered) ==
  IF ~configured THEN <<>>
  ELSE IF delivered THEN <<[payload |-> payload, delivered |-> TRUE]>>
  ELSE <<[payload |-> payload, delivered |-> FALSE],
         [payload |-> payload, delivered |-> FALSE]>>

\* if callback_base_url and plugin_name: requests.post(callback_url,
\* json=result, timeout=30); a RequestException is printed and dropped.
callback_posts(payload, configured, delivered) ==
  IF configured THEN <<[payload |-> payload, delivered |-> delivered]>>
  ELSE <<>>

\* background_download_task after perform_download_sync has returned.
Callback ==
  /\ pc = "done"
  /\ \E delivered \in BOOLEAN :
       posts' = posts \o callback_posts(result, callbackConfigured, delivered)
  /\ pc' = "returned"
  /\ UNCHANGED <<all_files, meta_requests, run, populated, reports, now, storeOK,
                 progress_manager, workInfoDict, snapshots, pmVars, cbVars,
                 loopVars, fileVars, raised, result, dispVars, manVars, extVars>>

\* The progress file stops being writable (disk full, directory removed).
StoreFails ==
  /\ pc \notin {"idle", "done", "returned"}
  /\ storeOK
  /\ storeOK' = FALSE
  /\ UNCHANGED <<pc, all_files, meta_requests, taskVars, now, progress_manager, workInfoDict, snapshots,
                 pmVars, cbVars, loopVars, fileVars, raised, result, dispVars, manVars, extVars>>

(* --------------------------- specification of a job ------------------- *)

DispIdle ==
  /\ plugin = "none" /\ target = "" /\ dpc = "idle"
  /\ input = "empty" /\ command = "absent"
  /\ video_title = "" /\ stderr = <<>>
  /\ stdout = <<>> /\ task_ids = 0 /\ events = <<>> /\ tracker = FALSE
  /\ progressFile = FALSE
  /\ thread = "none" /\ daemon = FALSE /\ bgLeft = 0 /\ procAlive = TRUE

JobFresh ==
  /\ now = StartTime
  /\ storeOK = TRUE
  /\ workInfoDict = TRUE
  /\ snapshots = <<>>
  /\ last_update_time = 0
  /\ hasLastProgress = FALSE
  /\ last_progress = <<0, 1>>
  /\ history = <<>>
  /\ last_eta_seconds = 0
  /\ eta = "--:--"
  /\ completed_files = 0
  /\ completed_files_list = <<>>
  /\ downloaded_bytes = 0
  /\ current_file = ""
  /\ idx = 1
  /\ attempts = <<>>
  /\ completed_downloads = <<>>
  /\ failed_downloads = <<>>
  /\ downloaded_size = 0
  /\ last_progress_time = 0
  /\ file_requests = 0
  /\ meta_requests = 0
  /\ transferred = FALSE
  /\ run = 1
  /\ populated = FALSE
  /\ posts = <<>>
  /\ reports = 0
  /\ raised = FALSE
  /\ result = NoResult

\* A job starts: the manifest and the content of the download directory
\* are the environment's.
JobStarts(manifests) ==
  /\ pc = "construct"
  /\ progress_manager = FALSE
  /\ all_files \in manifests
  /\ itemStatus = [i \in 1..Len(all_files) |-> "pending"]
  /\ disk \in [1..Len(all_files) -> DirContents]
  /\ JobFresh
  /\ DispIdle
  /\ ManIdle
  /\ ExtIdle

\* The manifests of SpecJob: every track carries its URL (a track without
\* one fails like a track whose request fails; SpecRerun has both).
InitJob ==
  /\ JobStarts(SeqsUpTo({it \in Items : it.url}, MaxItems))
  /\ callbackConfigured = FALSE

NextJob ==
  \/ Construct
  \/ UpdateStarting
  \/ Config
  \/ Login
  \/ Work
  \/ Tracks
  \/ Prepare
  \/ DownloadTracksBegin
  \/ DownloadSingleFile
  \/ StreamChunk
  \/ StreamEnd
  \/ StreamRaises
  \/ Finish
  \/ Callback
  \/ StoreFails

SpecJob == InitJob /\ [][NextJob]_vars

(* ------------- a job with its callback (background_download_task) ------ *)

\* As SpecJob, with the callback configured or not.
InitTask ==
  /\ JobStarts(SeqsUpTo({it \in Items : it.url}, MaxTaskItems))
  /\ callbackConfigured \in BOOLEAN

SpecTask == InitTask /\ [][NextJob]_vars

(* ------------- a ProgressManager and the reports made to it ------------ *)

\* progress_manager.update_download_progress(...) as progress_callback calls
\* it: the bytes grow by step up to total_bytes; without sizes a file is
\* counted instead.
ReportWith(dt, step) ==
  LET t == now + dt
      db == IF total_bytes > 0 THEN Min(downloaded_bytes + step, total_bytes)
            ELSE 0
      cf == IF total_bytes = 0 /\ step > 0
            THEN Min(completed_files + 1, total_files)
            ELSE completed_files
  IN  /\ now' = t
      /\ downloaded_bytes' = db
      /\ completed_files' = cf
      /\ update_download_progress(overall_progress(db, cf), cf,
                                  completed_files_list, db, total_bytes, t)
      /\ reports' = reports + 1
      /\ UNCHANGED <<pc, all_files, meta_requests, run, populated, posts, storeOK,
                     progress_manager, workInfoDict, completed_files_list,
                     current_file, loopVars, fileVars, raised, result, dispVars, manVars, extVars>>

Report ==
  /\ pc = "reporting"
  /\ reports < MaxReports
  /\ \E dt \in ReportDts, step \in ReportSteps : ReportWith(dt, step)

\* The same values are reported again at the same time (the "complete"
\* event of a file right after its last "active" event, a skipped file
\* without size).
ReportAgain ==
  /\ pc = "reporting"
  /\ reports >= MaxReports
  /\ reports < MaxReports + MaxRepeats
  /\ ReportWith(0, 0)

\* A ProgressManager that was just started, for a job of two files.
InitProgress ==
  /\ pc = "reporting"
  /\ progress_manager = TRUE
  /\ \E tb \in ReportTotals :
       all_files = <<[filename |-> "a", size |-> tb, url |-> TRUE],
                     [filename |-> "b", size |-> 0, url |-> TRUE]>>
  /\ itemStatus = [i \in 1..Len(all_files) |-> "pending"]
  /\ disk = [i \in 1..Len(all_files) |-> "absent"]
  /\ callbackConfigured = FALSE
  /\ JobFresh
  /\ DispIdle
  /\ ManIdle
  /\ ExtIdle

NextProgress ==
  \/ Report
  \/ ReportAgain

SpecProgress == InitProgress /\ [][NextProgress]_vars

(* ---------------- the same job run again (download_tracks) ------------- *)

\* The job is started again on the same manifest and download directory:
\* a new task with a new ProgressManager, closure and progress file.
Rerun ==
  /\ pc = "finish"
  /\ run < MaxRuns
  /\ run' = run + 1
  /\ populated' = \A i \in 1..Len(all_files) :
                     /\ itemStatus[i] \in {"complete", "skipped"}
                     /\ disk[i] \in {"partial", "data"}
  /\ pc' = "download_tracks"
  /\ itemStatus' = [i \in 1..Len(all_files) |-> "pending"]
  /\ snapshots' = <<>>
  /\ last_update_time' = 0
  /\ hasLastProgress' = FALSE
  /\ last_progress' = <<0, 1>>
  /\ history' = <<>>
  /\ last_eta_seconds' = 0
  /\ eta' = "--:--"
  /\ completed_files' = 0
  /\ completed_files_list' = <<>>
  /\ downloaded_bytes' = 0
  /\ current_file' = ""
  /\ idx' = 1
  /\ attempts' = <<>>
  /\ completed_downloads' = <<>>
  /\ failed_downloads' = <<>>
  /\ downloaded_size' = 0
  /\ last_progress_time' = 0
  /\ file_requests' = 0
  /\ transferred' = FALSE
  /\ UNCHANGED <<all_files, meta_requests, disk, posts, reports, now, storeOK,
                 progress_manager, workInfoDict, raised, result, dispVars, manVars, extVars>>

\* download_tracks is entered with any manifest (tracks with and without a
\* URL) and any content of the download directory.
InitRerun ==
  /\ pc = "download_tracks"
  /\ progress_manager = TRUE
  /\ all_files \in SeqsUpTo(Items, MaxItems)
  /\ itemStatus = [i \in 1..Len(all_files) |-> "pending"]
  /\ disk \in [1..Len(all_files) -> DirContents]
  /\ callbackConfigured = FALSE
  /\ JobFresh
  /\ DispIdle
  /\ ManIdle
  /\ ExtIdle

NextRerun ==
  \/ DownloadTracksBegin
  \/ DownloadSingleFile
  \/ StreamChunk
  \/ StreamEnd
  \/ StreamRaises
  \/ Rerun

SpecRerun == InitRerun /\ [][NextRerun]_vars

(* ------------------- the dispatchers and their process ---------------- *)

Plugins == {"ASMRTools", "MissAVCrawl"}

Targets == {"absent", "", "RJ123456"}

\* Mutant: only a missing key is refused, an empty identifier is accepted.
Truthy_NotAbsent(v) == v # "absent"

\* Python's truth of request_data.get(...): a missing key gives '' or None.
Truthy(v) == v \notin {"absent", ""}

\* download_thread.daemon as the plugin sets it.
ThreadDaemon(p) == p = "MissAVCrawl"

Commands == {"absent", "Search", "DownloadAsync"}

\* main(): read stdin, parse the request and route its command. Empty input,
\* unparsable JSON and a missing command print an error response; a
\* synchronous command prints the handler's result; the asynchronous download
\* command goes to handle_async_download, after which main returns silently.
Main ==
  /\ dpc = "main"
  /\ IF input = "request" /\ command = "DownloadAsync"
     THEN /\ dpc' = "validate"
          /\ UNCHANGED stdout
     ELSE /\ dpc' = "returned"
          /\ IF input = "request" /\ command = "Search"
             THEN \E r \in {"success", "error"} : stdout' = Append(stdout, r)
             ELSE stdout' = Append(stdout, "error")
  /\ UNCHANGED <<reqVars, task_ids, events, tracker, progressFile,
                 thread, daemon, bgLeft, procAlive, video_title, stderr, jobVars, manVars, extVars>>

\* if not work_id / if not url: print the error response and return.
Validate ==
  /\ dpc = "validate"
  /\ IF ~Truthy(target)
     THEN /\ stdout' = Append(stdout, "error")
          /\ dpc' = "returned"
     ELSE /\ dpc' = "task_id"
          /\ UNCHANGED stdout
  /\ UNCHANGED <<reqVars, task_ids, events, tracker, progressFile,
                 thread, daemon, bgLeft, procAlive, video_title, stderr, jobVars, manVars, extVars>>

\* task_id = str(uuid.uuid4())
GenerateTaskId ==
  /\ dpc = "task_id"
  /\ task_ids' = task_ids + 1
  /\ dpc' = (IF plugin = "MissAVCrawl" THEN "prefetch" ELSE "ack")
  /\ UNCHANGED <<reqVars, stdout, events, tracker, progressFile,
                 thread, daemon, bgLeft, procAlive, video_title, stderr, jobVars, manVars, extVars>>

\* MissAVCrawl: temp_crawler.client.get_video(url).title, a remote fetch whose
\* failure is caught.
PrefetchTitle ==
  /\ dpc = "prefetch"
  /\ events' = Append(events, "fetch")
  /\ video_title' \in {"title", "unknown"}
  /\ dpc' = "ack"
  /\ UNCHANGED <<reqVars, stdout, task_ids, tracker, progressFile,
                 thread, daemon, bgLeft, procAlive, stderr, jobVars, manVars, extVars>>

\* print(json.dumps(initial_response)); sys.stdout.flush()
Ack ==
  /\ dpc = "ack"
  /\ stdout' = Append(stdout, "success")
  /\ events' = Append(events, "ack")
  /\ dpc' = (IF plugin = "MissAVCrawl" THEN "tracker" ELSE "spawn")
  /\ UNCHANGED <<reqVars, task_ids, tracker, progressFile,
                 thread, daemon, bgLeft, procAlive, video_title, stderr, jobVars, manVars, extVars>>

\* MissAVCrawl: tracker = ProgressTracker(...)
MakeTracker ==
  /\ dpc = "tracker"
  /\ tracker' = TRUE
  /\ dpc' = "spawn"
  /\ UNCHANGED <<reqVars, stdout, task_ids, events, progressFile,
                 thread, daemon, bgLeft, procAlive, video_title, stderr, jobVars, manVars, extVars>>

\* threading.Thread(...); daemon = ...; start(). start() raises when no thread
\* can be started: ASMRTools prints an error response in its except clause,
\* MissAVCrawl lets it reach main(), which prints an error response.
Spawn ==
  /\ dpc = "spawn"
  /\ \/ /\ thread' = "running"
        /\ daemon' = ThreadDaemon(plugin)
        /\ bgLeft' = BgSteps
        /\ dpc' = (IF plugin = "ASMRTools" THEN "sleep" ELSE "returned")
        /\ UNCHANGED stdout
     \/ /\ stdout' = Append(stdout, "error")
        /\ dpc' = "returned"
        /\ UNCHANGED <<thread, daemon, bgLeft>>
  /\ UNCHANGED <<reqVars, task_ids, events, tracker, progressFile,
                 procAlive, video_title, stderr, jobVars, manVars, extVars>>

\* ASMRTools: the warning when no callback is configured, time.sleep(1), then
\* handle_async_download and main return.
Sleep ==
  /\ dpc = "sleep"
  /\ stderr' = (IF callbackConfigured THEN stderr ELSE Append(stderr, "warning"))
  /\ dpc' = "returned"
  /\ UNCHANGED <<reqVars, stdout, task_ids, events, tracker, progressFile,
                 thread, daemon, bgLeft, procAlive, video_title, jobVars, manVars, extVars>>

\* A step of the background thread: its first step creates the progress file.
BgStep ==
  /\ thread = "running"
  /\ procAlive
  /\ bgLeft > 0
  /\ bgLeft' = bgLeft - 1
  /\ events' = Append(events, "bg")
  /\ progressFile' = TRUE
  /\ UNCHANGED <<reqVars, dpc, stdout, task_ids, tracker, thread,
                 daemon, procAlive, video_title, stderr, jobVars, manVars, extVars>>

\* The background thread reports its terminal state and ends.
BgFinish ==
  /\ thread = "running"
  /\ procAlive
  /\ bgLeft = 0
  /\ thread' = "finished"
  /\ UNCHANGED <<reqVars, dpc, stdout, task_ids, events, tracker,
                 progressFile, daemon, bgLeft, procAlive, video_title, stderr, jobVars, manVars, extVars>>

\* main() has returned: the interpreter waits for the non-daemon threads and
\* exits; a daemon thread still running is stopped with it.
ProcessExit ==
  /\ dpc = "returned"
  /\ procAlive
  /\ thread = "running" => daemon
  /\ procAlive' = FALSE
  /\ thread' = (IF thread = "running" THEN "killed" ELSE thread)
  /\ UNCHANGED <<reqVars, dpc, stdout, task_ids, events, tracker,
                 progressFile, daemon, bgLeft, video_title, stderr, jobVars, manVars, extVars>>

JobIdle ==
  /\ pc = "idle"
  /\ progress_manager = FALSE
  /\ all_files = <<>>
  /\ disk = <<>>
  /\ itemStatus = <<>>
  /\ JobFresh

InitDispatch ==
  /\ plugin \in Plugins
  /\ input \in {"empty", "badjson", "request"}
  /\ command \in Commands
  /\ target \in Targets
  /\ input # "request" => (command = "absent" /\ target = "absent")
  /\ callbackConfigured \in BOOLEAN
  /\ video_title = "" /\ stderr = <<>>
  /\ dpc = "main"
  /\ stdout = <<>> /\ task_ids = 0 /\ events = <<>> /\ tracker = FALSE
  /\ progressFile = FALSE
  /\ thread = "none" /\ daemon = FALSE /\ bgLeft = 0 /\ procAlive = TRUE
  /\ JobIdle
  /\ ManIdle
  /\ ExtIdle

NextDispatch ==
  \/ Main
  \/ Validate
  \/ GenerateTaskId
  \/ PrefetchTitle
  \/ Ack
  \/ MakeTracker
  \/ Spawn
  \/ Sleep
  \/ BgStep
  \/ BgFinish
  \/ ProcessExit

SpecDispatch == InitDispatch /\ [][NextDispatch]_vars

(* ------- the resolution of a manifest (SyncDownloaderSimple) ----------- *)

\* The manifests of exactly n tracks: a track is a file or a folder with
\* its children. Every track has a title (the defaults "Unknown File" and
\* "Unknown Folder" of a missing title are not tried); mediaDownloadUrl and
\* size of a file are copied to its item and play no part in the resolution.
RECURSIVE Forests(_)
Forests(n) ==
  IF n = 0 THEN {<<>>}
  ELSE UNION {
         LET first == (IF k = 1
                       THEN {[type |-> "file", title |-> t, children |-> <<>>] :
                               t \in Titles}
                       ELSE {})
                      \cup {[type |-> "folder", title |-> t, children |-> c] :
                              t \in Titles, c \in Forests(k - 1)}
         IN  {<<f>> \o rest : f \in first, rest \in Forests(n - k)} :
         k \in 1..n }

Manifests == UNION {Forests(n) : n \in 0..MaxNodes}

\* The characters of [<>:"/\\|?*]
IllegalChars == {"<", ">", ":", "\"", "/", "\\", "|", "?", "*"}

\* "unnamed_file"
UnnamedFile == <<"u", "n", "n", "a", "m", "e", "d", "_", "f", "i", "l", "e">>

\* s.strip(chars)
RECURSIVE Strip(_, _)
Strip(s, chars) ==
  IF s = <<>> THEN s
  ELSE IF Head(s) \in chars THEN Strip(Tail(s), chars)
  ELSE IF s[Len(s)] \in chars THEN Strip(SubSeq(s, 1, Len(s) - 1), chars)
  ELSE s

\* Mutant: no fallback for a name that is left empty.
sanitize_filename_NoFallback(filename) ==
  Strip([i \in 1..Len(filename) |->
           IF filename[i] \in IllegalChars THEN "_" ELSE filename[i]],
        {".", " "})

\* _sanitize_filename
sanitize_filename(filename) ==
  LET replaced == [i \in 1..Len(filename) |->
                     IF filename[i] \in IllegalChars THEN "_" ELSE filename[i]]
      stripped == Strip(replaced, {".", " "})
  IN  IF stripped # <<>> THEN stripped ELSE UnnamedFile

\* _extract_files_from_tracks(tracks, base_path)
RECURSIVE extract_files_from_tracks(_, _)
extract_files_from_tracks(trks, base_path) ==
  IF trks = <<>> THEN <<>>
  ELSE LET track == Head(trks)
           folder_path == IF base_path # <<>>
                          THEN base_path \o <<"/">> \o sanitize_filename(track.title)
                          ELSE sanitize_filename(track.title)
           file_info == [title |-> track.title,
                         path |-> base_path,
                         filename |-> sanitize_filename(track.title)]
       IN  (IF track.type = "folder"
            THEN extract_files_from_tracks(track.children, folder_path)
            ELSE <<file_info>>)
             \o extract_files_from_tracks(Tail(trks), base_path)

\* s.startswith(prefix)
StartsWith(s, prefix) ==
  Len(s) >= Len(prefix) /\ SubSeq(s, 1, Len(prefix)) = prefix

\* '/'.join(file_path.split('/')[:-1]) if '/' in file_path else ""
RECURSIVE DirOf(_)
DirOf(file_path) ==
  IF file_path = <<>> THEN <<>>
  ELSE IF file_path[Len(file_path)] = "/"
  THEN SubSeq(file_path, 1, Len(file_path) - 1)
  ELSE DirOf(SubSeq(file_path, 1, Len(file_path) - 1))

\* Mutant: a file matches when its path begins with the characters of the
\* target path.
path_matches_Prefix(file_path, t_path) ==
  LET fp == Strip(file_path, {"/"})
      tp == Strip(t_path, {"/"})
  IN  tp = <<>> \/ StartsWith(fp, tp)

\* _path_matches(file_path, target_path)
path_matches(file_path, t_path) ==
  LET fp == Strip(file_path, {"/"})
      tp == Strip(t_path, {"/"})
  IN  \/ tp = <<>>
      \/ fp = tp
      \/ StartsWith(fp, tp \o <<"/">>)
      \/ DirOf(fp) = tp

\* _filter_files_by_path(all_files, target_path)
filter_files_by_path(files, t_path) ==
  LET tp == Strip(t_path, {"/"})
      full_path(file_info) == IF file_info.path # <<>>
                              THEN file_info.path \o <<"/">> \o file_info.filename
                              ELSE file_info.filename
      matches(file_info) == path_matches(full_path(file_info), tp)
  IN  SelectSeq(files, matches)

\* download_tracks, up to the loop: the files of the manifest are extracted
\* and, when a target path is given, filtered.
ExtractAndFilter ==
  /\ mstep = "tracks"
  /\ mstep' = "files"
  /\ extracted' = extract_files_from_tracks(tracks, <<>>)
  /\ filtered' = IF target_path # <<>>
                 THEN filter_files_by_path(extracted', target_path)
                 ELSE extracted'
  /\ UNCHANGED <<tracks, target_path, jobVars, dispVars, extVars>>

InitManifest ==
  /\ mstep = "tracks"
  /\ tracks \in Manifests
  /\ target_path \in TargetPaths
  /\ extracted = <<>>
  /\ filtered = <<>>
  /\ JobIdle
  /\ DispIdle
  /\ ExtIdle
  /\ callbackConfigured = FALSE

NextManifest == ExtractAndFilter

SpecManifest == InitManifest /\ [][NextManifest]_vars

(* ------------- a page fetch with retries (Video._fetch_with_retry) ----- *)

\* The pages a server may send: nothing, blanks, a page that carries one of
\* the error indicators (in other case than the indicator's), a video page.
Pages == {"", "  ", "<h1>404 NOT FOUND</h1>", "<title>video</title>"}

\* What core.fetch(url) may do: raise (the connection fails, the URL is
\* malformed), return None, a Response (text, status_code), an object with
\* content only, or a string.
RawContents ==
  [kind : {"raises"}, error : {"ConnectionError", "InvalidURL"},
   status_code : {0}, text : {""}]
    \cup [kind : {"None"}, error : {""}, status_code : {0}, text : {""}]
    \cup [kind : {"Response"}, error : {""}, status_code : {200, 503},
          text : Pages]
    \cup [kind : {"content", "str"}, error : {""}, status_code : {0},
          text : Pages]

\* content.strip()
strip(page) == IF page = "  " THEN "" ELSE page

\* _is_error_page: an indicator occurs in content.lower().
is_error_page(page) == page = "<h1>404 NOT FOUND</h1>"

\* The body of the try block for what core.fetch did: the page returned, or
\* str(e) of the exception raised.
fetch_once(raw_content) ==
  LET failed(e) == [ok |-> FALSE, content |-> "", error |-> e]
  IN  CASE raw_content.kind = "raises" -> failed(raw_content.error)
        [] raw_content.kind = "None" -> failed("fetch returned None")
        [] raw_content.kind = "Response" /\ raw_content.status_code # 200
             -> failed("HTTP error")
        [] Len(strip(raw_content.text)) = 0 -> failed("empty page")
        [] is_error_page(raw_content.text) -> failed("error page")
        [] OTHER -> [ok |-> TRUE, content |-> raw_content.text, error |-> ""]

\* network_config.get_retry_delay(attempt): exponential backoff.
get_retry_delay(n) == 2 ^ n

\* A wait that does not grow with the attempt.
wait_time_Constant(n) == 2

\* wait_time before the attempt that follows attempt n.
wait_time(n) == IF network_config THEN get_retry_delay(n) ELSE (2 ^ n) * 1

\* max_retries the network configuration may hold (MAX_RETRIES).
ConfiguredRetries == 1..MaxRetries

\* The import of network_config and the default of max_retries.
FetchBegin ==
  /\ fpc = "begin"
  /\ fpc' = "loop"
  /\ max_retries' \in (IF retries_given THEN {max_retries}
                       ELSE IF network_config THEN ConfiguredRetries
                       ELSE {DefaultRetries})
  /\ UNCHANGED <<retries_given, network_config, attempt, fetch_calls, errors,
                 sleeps, last_error, content, error_msg, jobVars, dispVars, manVars,
                 batchVars>>

\* One iteration of the loop: core.fetch, the checks of what it returned,
\* return content; or the except clause with its sleep or its break.
FetchAttempt ==
  /\ fpc = "loop"
  /\ attempt < max_retries
  /\ fetch_calls' = fetch_calls + 1
  /\ \E raw_content \in RawContents :
       LET r == fetch_once(raw_content)
       IN  IF r.ok
           THEN /\ content' = r.content
                /\ fpc' = "returned"
                /\ UNCHANGED <<attempt, errors, sleeps, last_error>>
           ELSE /\ last_error' = r.error
                /\ errors' = Append(errors, r.error)
                /\ IF attempt < max_retries - 1
                   THEN /\ sleeps' = Append(sleeps, wait_time(attempt))
                        /\ attempt' = attempt + 1
                        /\ UNCHANGED fpc
                   ELSE /\ fpc' = "exhausted"
                        /\ UNCHANGED <<sleeps, attempt>>
                /\ UNCHANGED content
  /\ UNCHANGED <<retries_given, max_retries, network_config, error_msg,
                 jobVars, dispVars, manVars, batchVars>>

\* After the loop: raise ValueError(error_msg).
FetchRaise ==
  /\ \/ fpc = "exhausted"
     \/ fpc = "loop" /\ attempt >= max_retries
  /\ fpc' = "raised"
  /\ error_msg' = [retries |-> max_retries, last |-> last_error]
  /\ UNCHANGED <<retries_given, max_retries, network_config, attempt,
                 fetch_calls, errors, sleeps, last_error, content,
                 jobVars, dispVars, manVars, batchVars>>

InitFetch ==
  /\ fpc = "begin"
  /\ retries_given \in BOOLEAN
  /\ max_retries \in (IF retries_given THEN 0..MaxRetries ELSE {0})
  /\ network_config \in BOOLEAN
  /\ attempt = 0
  /\ fetch_calls = 0
  /\ errors = <<>>
  /\ sleeps = <<>>
  /\ last_error = ""
  /\ content = ""
  /\ error_msg = NoErrorMsg
  /\ JobIdle
  /\ DispIdle
  /\ ManIdle
  /\ BatchIdle
  /\ callbackConfigured = FALSE

NextFetch ==
  \/ FetchBegin
  \/ FetchAttempt
  \/ FetchRaise

SpecFetch == InitFetch /\ [][NextFetch]_vars

(* ------ batch title enrichment (Client._get_real_video_titles_batch) --- *)

\* range(min(max_concurrent, len(video_urls))): the threads to start.
thread_count ==
  IF max_concurrent < Len(video_urls) THEN max_concurrent ELSE Len(video_urls)

\* Thread.is_alive() of a thread that was started.
is_alive(t) == wpc[t] \notin {"done", "died"}

\* A join without a timeout: it blocks while the thread is alive.
join_NoTimeout(t) == IF is_alive(t) THEN "blocked" ELSE "joined"

\* t.join(timeout=30): it returns when the thread has ended, or on its
\* timeout while the thread is alive.
join(t) == IF is_alive(t) THEN "timeout" ELSE "joined"

\* A store that keeps only the titles that were found.
store_result_NonEmpty(res, url, title) ==
  IF title = "" THEN res ELSE [res EXCEPT ![url] = title]

\* with result_lock: results[url] = title
store_result(res, url, title) == [res EXCEPT ![url] = title]

\* results = {}, url_queue = Queue(), url_queue.put(url) for every URL.
BatchBegin ==
  /\ bpc = "begin"
  /\ bpc' = "start"
  /\ url_queue' = [i \in 1..Len(video_urls) |-> i]
  /\ unfinished_tasks' = Len(video_urls)
  /\ UNCHANGED <<video_urls, max_concurrent, results, wpc, wentry, taken, fetched,
                 task_done_calls, started, joined, timed_out,
                 jobVars, dispVars, manVars, fetchVars>>

\* One iteration of the loop that starts the threads, or its end.
StartThread ==
  /\ bpc = "start"
  /\ IF started < thread_count
     THEN /\ started' = started + 1
          /\ wpc' = [wpc EXCEPT ![started + 1] = "check"]
          /\ UNCHANGED bpc
     ELSE /\ bpc' = "join"
          /\ UNCHANGED <<started, wpc>>
  /\ UNCHANGED <<video_urls, max_concurrent, url_queue, unfinished_tasks, results,
                 wentry, taken, fetched, task_done_calls, joined, timed_out,
                 jobVars, dispVars, manVars, fetchVars>>

\* for t in threads: t.join(timeout=30)
JoinThread ==
  /\ bpc = "join"
  /\ joined < started
  /\ join(joined + 1) # "blocked"
  /\ joined' = joined + 1
  /\ timed_out' = (timed_out \/ join(joined + 1) = "timeout")
  /\ UNCHANGED <<bpc, video_urls, max_concurrent, url_queue, unfinished_tasks,
                 results, wpc, wentry, taken, fetched, task_done_calls, started,
                 jobVars, dispVars, manVars, fetchVars>>

\* return results
BatchReturn ==
  /\ bpc = "join"
  /\ joined = started
  /\ bpc' = "returned"
  /\ UNCHANGED <<video_urls, max_concurrent, url_queue, unfinished_tasks, results,
                 wpc, wentry, taken, fetched, task_done_calls, started, joined,
                 timed_out, jobVars, dispVars, manVars, fetchVars>>

\* while not url_queue.empty():
WorkerCheck(w) ==
  /\ wpc[w] = "check"
  /\ wpc' = [wpc EXCEPT ![w] = IF url_queue = <<>> THEN "done" ELSE "get"]
  /\ wentry' = [wentry EXCEPT ![w] = 0]
  /\ UNCHANGED <<bpc, video_urls, max_concurrent, url_queue, unfinished_tasks,
                 results, taken, fetched, task_done_calls, started, joined,
                 timed_out, jobVars, dispVars, manVars, fetchVars>>

\* url = url_queue.get_nowait(): the head of the queue, or queue.Empty,
\* which the except clause passes over on the way to the finally clause.
WorkerGet(w) ==
  /\ wpc[w] = "get"
  /\ IF url_queue # <<>>
     THEN /\ wentry' = [wentry EXCEPT ![w] = Head(url_queue)]
          /\ url_queue' = Tail(url_queue)
          /\ taken' = [taken EXCEPT ![Head(url_queue)] = @ + 1]
          /\ wpc' = [wpc EXCEPT ![w] = "fetch"]
     ELSE /\ wpc' = [wpc EXCEPT ![w] = "task_done"]
          /\ UNCHANGED <<wentry, url_queue, taken>>
  /\ UNCHANGED <<bpc, video_urls, max_concurrent, unfinished_tasks, results,
                 fetched, task_done_calls, started, joined, timed_out,
                 jobVars, dispVars, manVars, fetchVars>>

\* title = self._get_real_video_title(url) ("" when the fetch failed), the
\* store under the lock and the sleep of 0.5 s. A fetch that does not
\* return leaves the worker here.
WorkerFetch(w) ==
  /\ wpc[w] = "fetch"
  /\ \E title \in VideoTitles \cup {""} :
       /\ fetched' = [fetched EXCEPT ![wentry[w]] = title]
       /\ results' = store_result(results, video_urls[wentry[w]], title)
  /\ wpc' = [wpc EXCEPT ![w] = "task_done"]
  /\ UNCHANGED <<bpc, video_urls, max_concurrent, url_queue, unfinished_tasks,
                 wentry, taken, task_done_calls, started, joined, timed_out,
                 jobVars, dispVars, manVars, fetchVars>>

\* finally: url_queue.task_done(). Queue.task_done raises ValueError when
\* no task is unfinished; nothing in the worker catches it.
WorkerTaskDone(w) ==
  /\ wpc[w] = "task_done"
  /\ task_done_calls' = task_done_calls + 1
  /\ IF unfinished_tasks <= 0
     THEN /\ wpc' = [wpc EXCEPT ![w] = "died"]
          /\ UNCHANGED unfinished_tasks
     ELSE /\ unfinished_tasks' = unfinished_tasks - 1
          /\ wpc' = [wpc EXCEPT ![w] = "check"]
  /\ UNCHANGED <<bpc, video_urls, max_concurrent, url_queue, results, wentry,
                 taken, fetched, started, joined, timed_out,
                 jobVars, dispVars, manVars, fetchVars>>

InitBatch ==
  /\ bpc = "begin"
  /\ video_urls \in SeqsUpTo(Urls, MaxUrls)
  /\ max_concurrent \in 1..MaxConcurrent
  /\ url_queue = <<>>
  /\ unfinished_tasks = 0
  /\ results = [u \in Urls |-> "absent"]
  /\ wpc = [w \in 1..MaxConcurrent |-> "unstarted"]
  /\ wentry = [w \in 1..MaxConcurrent |-> 0]
  /\ taken = [i \in 1..Len(video_urls) |-> 0]
  /\ fetched = [i \in 1..Len(video_urls) |-> "none"]
  /\ task_done_calls = 0
  /\ started = 0
  /\ joined = 0
  /\ timed_out = FALSE
  /\ JobIdle
  /\ DispIdle
  /\ ManIdle
  /\ FetchIdle
  /\ callbackConfigured = FALSE

\* The steps of the thread that called _get_real_video_titles_batch.
BatchMain ==
  \/ BatchBegin
  \/ StartThread
  \/ JoinThread
  \/ BatchReturn

NextBatch ==
  \/ BatchBegin
  \/ StartThread
  \/ JoinThread
  \/ BatchReturn
  \/ \E w \in 1..MaxConcurrent : WorkerCheck(w)
  \/ \E w \in 1..MaxConcurrent : WorkerGet(w)
  \/ \E w \in 1..MaxConcurrent : WorkerFetch(w)
  \/ \E w \in 1..MaxConcurrent : WorkerTaskDone(w)

SpecBatch == InitBatch /\ [][NextBatch]_vars

\* The calling thread is scheduled: it takes its next step when it can. A
\* worker's fetch may never return, so nothing is assumed of the workers.
SpecBatchLive == SpecBatch /\ WF_vars(BatchMain)

(* ------------------------- properties of a job ------------------------ *)

Terminal(snap) == snap.status \in {"Succeed", "Failed"}

StateRank(status) ==
  CASE status = "Starting" -> 0
    [] status = "Preparing" -> 1
    [] status = "Downloading" -> 2
    [] OTHER -> 3

CountStatus(status) ==
  Cardinality({i \in 1..Len(snapshots) : snapshots[i].status = status})

Succeeded(i) == itemStatus[i] \in {"complete", "skipped"}

RECURSIVE FailedNamesFrom(_)
FailedNamesFrom(i) ==
  IF i > Len(all_files) THEN <<>>
  ELSE IF itemStatus[i] = "failed"
       THEN <<all_files[i].filename>> \o FailedNamesFrom(i + 1)
       ELSE FailedNamesFrom(i + 1)

\* C1: when the job has ended (and the progress file stayed writable), exactly
\* one terminal snapshot (Succeed or Failed) has been written and it is the
\* last snapshot of the job, on every path through perform_download_sync.
C1_SingleTerminalWrite ==
  (pc = "done" /\ storeOK) =>
     /\ Len(snapshots) >= 1
     /\ Terminal(snapshots[Len(snapshots)])
     /\ \A i \in 1..(Len(snapshots) - 1) : ~Terminal(snapshots[i])

\* C2: the progress value never decreases from one persisted snapshot to the
\* next (among the snapshots that carry a progress value).
C2_ProgressMonotone ==
  \A i \in 1..Len(snapshots) : \A j \in 1..Len(snapshots) :
     (i < j /\ snapshots[i].hasProgress /\ snapshots[j].hasProgress) =>
        FracLeq(snapshots[i].progress, snapshots[j].progress)

\* C3: the progress value of every persisted snapshot lies in 0..100.
C3_ProgressInRange ==
  \A i \in 1..Len(snapshots) :
     snapshots[i].hasProgress =>
        /\ FracLeq(<<0, 1>>, snapshots[i].progress)
        /\ FracLeq(snapshots[i].progress, <<100, 1>>)

\* The job has passed update_preparing.
PastPreparing == pc \in {"download_tracks", "item", "stream", "finish"}

\* C7: the states of the persisted snapshots follow the order Starting,
\* Preparing, Downloading, terminal: no later snapshot carries an earlier
\* state, and Starting and Preparing are written once each, whatever the
\* throttle's state (with a writable store they are the first two snapshots).
C7_StateOrder ==
  /\ \A i \in 1..Len(snapshots) : \A j \in 1..Len(snapshots) :
        i < j => StateRank(snapshots[i].status) <= StateRank(snapshots[j].status)
  /\ CountStatus("Starting") <= 1
  /\ CountStatus("Preparing") <= 1
  /\ (storeOK /\ progress_manager /\ pc \notin {"construct", "starting"}) =>
        (Len(snapshots) >= 1 /\ snapshots[1].status = "Starting")
  /\ (storeOK /\ PastPreparing) =>
        (Len(snapshots) >= 2 /\ snapshots[2].status = "Preparing")

C7_Witness ==
  /\ pc = "done"
  /\ Len(snapshots) >= 4
  /\ snapshots[1].status = "Starting"
  /\ snapshots[2].status = "Preparing"
  /\ snapshots[3].status = "Downloading"
  /\ snapshots[Len(snapshots)].status = "Succeed"

\* C8: an exception that reaches the handler of perform_download_sync leaves a
\* terminal Failed snapshot with a reason as the job's last snapshot (the
\* progress file being writable).
C8_ExceptionGivesFailedSnapshot ==
  (pc = "done" /\ raised /\ storeOK) =>
     /\ Len(snapshots) >= 1
     /\ snapshots[Len(snapshots)].status = "Failed"
     /\ snapshots[Len(snapshots)].reason # ""

\* C9: when the loop over the manifest has ended, the job is Succeed exactly
\* when some item ended complete or skipped, Failed exactly when none did, and
\* the result lists every failed item.
C9_PartialSuccessPolicy ==
  [][(pc = "finish" /\ pc' = "done") =>
       /\ (result'.status = "Succeed") <=> (\E i \in 1..Len(all_files) : Succeeded(i))
       /\ (result'.status = "Failed") <=> ~(\E i \in 1..Len(all_files) : Succeeded(i))
       /\ result'.failedFiles = FailedNamesFrom(1)
       /\ (storeOK => /\ Len(snapshots') >= 1
                      /\ snapshots'[Len(snapshots')].status = result'.status)]_vars

C9_Witness ==
  /\ pc = "done"
  /\ result.status = "Succeed"
  /\ result.failedCount > 0
  /\ result.failedFiles # <<>>

\* C10: download_tracks hands every item of the manifest to
\* download_single_file exactly once, in manifest order and one at a time; a
\* failed item does not stop the loop; every item ends in exactly one of
\* completed_downloads and failed_downloads, so the two counts add up to
\* total_tracks when the loop ends.
C10_SequentialExactlyOnce ==
  /\ \A k \in 1..Len(attempts) : attempts[k] = k
  /\ Cardinality({i \in 1..Len(all_files) : itemStatus[i] = "active"})
        = (IF pc = "stream" THEN 1 ELSE 0)
  /\ pc \in {"item", "stream", "finish"} =>
        /\ Len(completed_downloads)
             = Cardinality({i \in 1..Len(all_files) : Succeeded(i)})
        /\ Len(failed_downloads)
             = Cardinality({i \in 1..Len(all_files) : itemStatus[i] = "failed"})
  /\ pc = "finish" =>
        /\ Len(attempts) = Len(all_files)
        /\ \A i \in 1..Len(all_files) : itemStatus[i] \in {"complete", "skipped", "failed"}
        /\ download_result.success_count + download_result.failed_count
             = download_result.total_tracks

C10_Witness ==
  /\ pc = "finish"
  /\ Len(all_files) = 2
  /\ itemStatus[1] = "failed"
  /\ itemStatus[2] = "complete"
  /\ download_result.success_count = 1
  /\ download_result.failed_count = 1

\* The job has ended: perform_download_sync has returned.
Ended == pc \in {"done", "returned"}

C26_SucceededOnlyIfWholeContent ==
  \A i \in 1..Len(all_files) :
     /\ itemStatus[i] = "skipped" => disk[i] = "data"
     /\ itemStatus[i] = "complete" => disk[i] \in {"empty", "data"}

\* A second run skipped an item whose file is what a failed transfer of the
\* first run left, and counted it in completed_downloads.
C26_Witness ==
  /\ run = 2
  /\ pc = "finish"
  /\ Len(all_files) = 1
  /\ itemStatus[1] = "skipped"
  /\ disk[1] = "partial"
  /\ download_result.success_count = 1
  /\ file_requests = 0

\* C28: in every Downloading snapshot completedFiles equals the length of
\* completedFilesList, both equal the number of items that have ended
\* complete or skipped so far, and they never exceed totalFiles; also when
\* two items in different folders have the same file name.
C28_CompletedCountsAgree ==
  /\ [](\A i \in 1..Len(snapshots) :
          snapshots[i].status = "Downloading"
            => /\ snapshots[i].completedFiles = Len(snapshots[i].completedFilesList)
               /\ snapshots[i].completedFiles <= Len(all_files))
  /\ [][ (/\ Len(snapshots') = Len(snapshots) + 1
          /\ snapshots'[Len(snapshots')].status = "Downloading")
         => snapshots'[Len(snapshots')].completedFiles =
              Cardinality({i \in 1..Len(all_files) :
                             itemStatus'[i] \in {"complete", "skipped"}})
       ]_vars

\* Two items named "a" have both ended: the snapshot counts 2 completed
\* files and lists one.
C28_Witness ==
  /\ Len(all_files) = 2
  /\ all_files[1].filename = all_files[2].filename
  /\ \A i \in 1..2 : itemStatus[i] \in {"complete", "skipped"}
  /\ snapshots # <<>>
  /\ \E i \in 1..Len(snapshots) :
        /\ snapshots[i].status = "Downloading"
        /\ snapshots[i].completedFiles = 2
        /\ Len(snapshots[i].completedFilesList) = 1

\* The metadata fetches a job has begun when it reports the given reason.
FetchesBegun(reason) ==
  CASE reason = "Login failed" -> 1
    [] reason = "Work not found" -> 2
    [] reason = "No tracks found for this work" -> 3
    [] OTHER -> 0

\* C21: a job that ended Failed on a metadata fetch (login, work info,
\* track manifest) repeated that fetch at least once before it gave up: it
\* made more calls of the session than the fetches it began.
C21_MetadataFetchRetried ==
  (pc \in {"done", "returned"} /\ result.status = "Failed"
     /\ FetchesBegun(result.reason) > 0)
    => meta_requests > FetchesBegun(result.reason)

\* The login was answered once with a status other than 200 (a 503, say):
\* the job is Failed after that one call.
C21_Witness ==
  /\ pc = "done"
  /\ result.status = "Failed"
  /\ result.reason = "Login failed"
  /\ meta_requests = 1
  /\ snapshots # <<>>
  /\ snapshots[Len(snapshots)].status = "Failed"

\* C30: when the filtered manifest is empty no item is handed to
\* download_single_file, no request for a file is made and no Downloading
\* snapshot is written; download_tracks, unless it raises, goes straight to
\* the end of the job, which writes the snapshot Failed with the reason
\* "All downloads failed" and returns that reason; the callback carries it.
C30_EmptyManifestFails ==
  /\ [](all_files = <<>>
         => /\ attempts = <<>>
            /\ file_requests = 0
            /\ pc \notin {"item", "stream"}
            /\ \A i \in 1..Len(snapshots) : snapshots[i].status # "Downloading"
            /\ result.status # "Succeed")
  /\ [][ all_files = <<>>
         => /\ (pc = "download_tracks" /\ pc' # pc /\ ~raised') => pc' = "finish"
            /\ (pc = "finish" /\ pc' # pc)
                 => /\ pc' = "done"
                    /\ result'.status = "Failed"
                    /\ result'.reason = "All downloads failed"
                    /\ storeOK
                         => /\ Len(snapshots') = Len(snapshots) + 1
                            /\ snapshots'[Len(snapshots')].status = "Failed"
                            /\ snapshots'[Len(snapshots')].reason = "All downloads failed"
            /\ (pc = "done" /\ pc' # pc /\ callbackConfigured)
                 => /\ Len(posts') = 1
                    /\ posts'[1].payload = result
                    /\ snapshots' = snapshots
       ]_vars

\* A job with an empty manifest has returned: Preparing was written, then
\* Failed "All downloads failed", and the callback carries that reason.
C30_Witness ==
  /\ all_files = <<>>
  /\ pc = "returned"
  /\ ~raised
  /\ Len(snapshots) = 3
  /\ snapshots[2].status = "Preparing"
  /\ snapshots[3].status = "Failed"
  /\ snapshots[3].reason = "All downloads failed"
  /\ Len(posts) = 1
  /\ posts[1].payload.status = "Failed"
  /\ posts[1].payload.reason = "All downloads failed"

\* C12: background_download_task POSTs the result of the job at most once,
\* after perform_download_sync has returned (the terminal snapshot is
\* written by then) and only when the callback is configured; the payload is
\* the result; whether the delivery succeeds or not, no second POST follows
\* and the snapshots of the job are left as they are.
C12_CallbackAtMostOnce ==
  [][ /\ Len(posts') <= 1
      /\ ~callbackConfigured => posts' = <<>>
      /\ posts' # posts
           => /\ pc = "done"
              /\ callbackConfigured
              /\ posts'[1].payload = result
              /\ snapshots' = snapshots
      /\ (pc' = "returned" /\ callbackConfigured) => Len(posts') = 1
    ]_vars

\* A job has returned whose one callback was not delivered and whose last
\* snapshot is terminal.
C12_Witness ==
  /\ pc = "returned"
  /\ Len(posts) = 1
  /\ ~posts[1].delivered
  /\ snapshots # <<>>
  /\ Terminal(snapshots[Len(snapshots)])

\* C13: a failure of the progress store never aborts or fails the job: when
\* the store could not be set up, every item of the manifest is still
\* handed to download_single_file; and a job whose store stopped being
\* writable is not ended by an exception for that.
C13_StoreFailureNeverFailsJob ==
  (Ended /\ ~progress_manager) => (~raised /\ Len(attempts) = Len(all_files))

WindowSpan ==
  history[Len(history)].time
    - history[IF Len(history) > 8 THEN Len(history) - 7 ELSE 1].time

\* C16: the estimate is "--:--" whenever the history has fewer than 2
\* samples and whenever the last 8 samples span less than 3 seconds.
C16_UnknownEta ==
  (Len(history) < 2 \/ WindowSpan < 3) => eta = "--:--"

\* Nine samples or more that span 3 seconds or more as a whole, but whose
\* last 8 do not, with progress strictly between 0 and 100: no estimate.
C16_Witness ==
  /\ Len(history) >= 9
  /\ history[Len(history)].time - history[1].time >= 3
  /\ WindowSpan < 3
  /\ downloaded_bytes > 0
  /\ downloaded_bytes < total_bytes
  /\ eta = "--:--"

\* The samples the estimate of C17 is about: two or more, the last 8 span
\* 3 seconds or more, the total is known, the bytes grew over the window.
ByteWindow(hist) ==
  LET oldest == hist[IF Len(hist) > 8 THEN Len(hist) - 7 ELSE 1]
      newest == hist[Len(hist)]
  IN  [dt |-> newest.time - oldest.time,
       db |-> newest.downloaded_bytes - oldest.downloaded_bytes,
       left |-> newest.total_bytes - newest.downloaded_bytes,
       total |-> newest.total_bytes]

MmSs(n) == Pad2(n \div 60) \o ":" \o Pad2(n % 60)

\* C17: with 2 or more samples in the window of the last 8 that span 3
\* seconds or more, a known total, a positive byte delta and no previous
\* estimate, the string returned is (total - downloaded) / (byte delta /
\* time delta), truncated to whole seconds, as mm:ss. Stated for bytes still
\* left and a quotient of at most 3600 seconds, where mm:ss is the format.
C17_ByteRateEtaMmSs ==
  [][ (/\ reports' = reports + 1
       /\ Len(history') >= 2
       /\ ByteWindow(history').dt >= 3
       /\ ByteWindow(history').total > 0
       /\ ByteWindow(history').db > 0
       /\ ByteWindow(history').left > 0
       /\ (ByteWindow(history').left * ByteWindow(history').dt)
            \div ByteWindow(history').db <= 3600
       /\ last_eta_seconds = 0)
      => eta' = MmSs((ByteWindow(history').left * ByteWindow(history').dt)
                       \div ByteWindow(history').db)
    ]_vars

\* Samples (t, 0 of 1000) and (t + 30, 500 of 1000): 500 bytes are left at
\* 500 bytes in 30 seconds, which is 30 seconds; the string is "00:29".
C17_Witness ==
  /\ Len(history) = 2
  /\ history[1].downloaded_bytes = 0
  /\ history[1].total_bytes = 1000
  /\ history[2].time = history[1].time + 30
  /\ history[2].downloaded_bytes = 500
  /\ history[2].total_bytes = 1000
  /\ last_eta_seconds = 29
  /\ eta = "00:29"

\* C20: the snapshot of a progress event is persisted if and only if the
\* configured interval has elapsed since the last persisted snapshot, or the
\* progress differs by more than 1 percentage point from the progress of the
\* last persisted snapshot, or it is the first Downloading snapshot.
C20_PersistedIffThrottlePasses ==
  [][ reports' = reports + 1
      => ( Len(snapshots') = Len(snapshots) + 1
           <=> \/ snapshots = <<>>
               \/ now' - last_update_time >= update_interval
               \/ MovedMoreThanOnePoint(history'[Len(history')].progress,
                                        snapshots[Len(snapshots)].progress) )
    ]_vars

\* A snapshot was persisted at the time of the one before it (no interval
\* elapsed) with a progress at most 1 point from the one before it.
C20_Witness ==
  /\ Len(snapshots) >= 2
  /\ last_update_time = history[Len(history)].time
  /\ Len(history) >= 2
  /\ history[Len(history) - 1].time = history[Len(history)].time
  /\ snapshots[Len(snapshots)].progress = history[Len(history)].progress
  /\ snapshots[Len(snapshots) - 1].progress = history[Len(history) - 1].progress
  /\ ~MovedMoreThanOnePoint(snapshots[Len(snapshots)].progress,
                            snapshots[Len(snapshots) - 1].progress)
  /\ snapshots[Len(snapshots)].progress # snapshots[Len(snapshots) - 1].progress

\* C24: every progress event is appended to the ETA history, whether or not
\* its snapshot is persisted; after the n-th event since the start of the job
\* the history holds the most recent min(n, 15) samples; it is empty when
\* the job starts.
C24_HistoryKeepsLast15 ==
  /\ [](reports = 0 => history = <<>>)
  /\ [][ reports' = reports + 1
         => LET n == Len(history')
            IN  /\ n = (IF reports' < 15 THEN reports' ELSE 15)
                /\ history'[n].time = now'
                /\ history'[n].downloaded_bytes = downloaded_bytes'
                /\ \A i \in 1..(n - 1) :
                      history'[i] = history[Len(history) - (n - 1) + i]
       ]_vars

\* Sixteen events were received, not all of them persisted: the history
\* holds the last 15, the first one is gone.
C24_Witness ==
  /\ reports = 16
  /\ Len(history) = 15
  /\ Len(snapshots) < reports
  /\ history[1].time > StartTime
  /\ history[1].time < history[15].time

(* ---------------- properties of the manifest resolution --------------- *)

\* The leaf files of a manifest in depth-first order, each with its title
\* and the number of folders it is nested in.
RECURSIVE LeavesInOrder(_, _)
LeavesInOrder(forest, depth) ==
  IF forest = <<>> THEN <<>>
  ELSE (IF forest[1].type = "folder"
        THEN LeavesInOrder(forest[1].children, depth + 1)
        ELSE <<[title |-> forest[1].title, depth |-> depth]>>)
         \o LeavesInOrder(Tail(forest), depth)

\* The segments of a folder path ("": none).
RECURSIVE Segments(_)
Segments(path) ==
  IF path = <<>> THEN <<>>
  ELSE IF \E i \in 1..Len(path) : path[i] = "/"
  THEN LET i == CHOOSE j \in 1..Len(path) :
                  path[j] = "/" /\ \A k \in 1..(j - 1) : path[k] # "/"
       IN  <<SubSeq(path, 1, i - 1)>> \o
             (IF i = Len(path) THEN <<<<>>>> ELSE Segments(SubSeq(path, i + 1, Len(path))))
  ELSE <<path>>

\* A name that is not empty and has none of < > : " / \ | ? *
CleanName(name) ==
  /\ name # <<>>
  /\ \A i \in 1..Len(name) :
        name[i] \notin {"<", ">", ":", "\"", "/", "\\", "|", "?", "*"}

\* C18: for a manifest with N leaf files nested at any depth the resolution
\* returns exactly N items in depth-first order, each with a file name that
\* is not empty and has no illegal character, and a folder path with one
\* such segment per folder the file is nested in.
C18_ManifestResolution ==
  mstep = "files" =>
     LET leaves == LeavesInOrder(tracks, 0)
     IN  /\ Len(extracted) = Len(leaves)
         /\ \A i \in 1..Len(extracted) :
               /\ extracted[i].title = leaves[i].title
               /\ CleanName(extracted[i].filename)
               /\ Len(Segments(extracted[i].path)) = leaves[i].depth
               /\ \A k \in 1..Len(Segments(extracted[i].path)) :
                     CleanName(Segments(extracted[i].path)[k])

\* The file ".b? " in the folder " ." in the folder "a/b" was resolved to
\* the item "b_" in "a_b/unnamed_file".
C18_Witness ==
  /\ mstep = "files"
  /\ Len(tracks) = 1
  /\ tracks[1].title = <<"a", "/", "b">>
  /\ Len(extracted) = 1
  /\ extracted[1].title = <<".", "b", "?", " ">>
  /\ extracted[1].filename = <<"b", "_">>
  /\ extracted[1].path = <<"a", "_", "b", "/">> \o UnnamedFile

\* The target path without its surrounding slashes.
Scope == Strip(target_path, {"/"})

\* The item lies in the folder Scope: its path is the folder or goes on
\* below it.
InFolder(item) ==
  \/ item.path = Scope
  \/ StartsWith(item.path, Scope \o <<"/">>)

\* path/filename of an item.
FullPath(item) ==
  IF item.path = <<>> THEN item.filename
  ELSE item.path \o <<"/">> \o item.filename

\* C19 as stated: with an empty scope all items are returned unchanged; with
\* the scope of a folder that holds items, exactly the items in that folder
\* or below it, in manifest order, and no other.
C19_FolderScopeOnly ==
  mstep = "files" =>
     /\ Scope = <<>> => filtered = extracted
     /\ (Scope # <<>> /\ \E i \in 1..Len(extracted) : InFolder(extracted[i]))
          => filtered = SelectSeq(extracted, InFolder)

\* C19 (amended): with an empty scope all items are returned unchanged;
\* otherwise exactly the items in the folder named by the scope or below it
\* and the items whose own path/filename is the scope, in manifest order.
C19_PathFilter ==
  mstep = "files" =>
     /\ Scope = <<>> => filtered = extracted
     /\ Scope # <<>> =>
          LET selected(item) == InFolder(item) \/ FullPath(item) = Scope
          IN  filtered = SelectSeq(extracted, selected)

\* The scope "/a/" kept the items of the folder "a" and dropped another.
C19_Witness ==
  /\ mstep = "files"
  /\ target_path = <<"/", "a", "/">>
  /\ filtered # <<>>
  /\ Len(filtered) < Len(extracted)
  /\ \A i \in 1..Len(filtered) : filtered[i].path = <<"a">>

(* --------------------- properties of the dispatchers ------------------ *)

\* C4: in both plugins the background thread of an accepted job is started
\* non-daemonized, and it is never stopped by the exit of the process before
\* it has made its terminal report.
C4_AcceptedJobNeverLost ==
  thread # "none" => (~daemon /\ thread # "killed")

\* C5: a request whose target identifier is missing or empty gets exactly one
\* error response; no task id is generated, no remote fetch is made, no
\* tracker, progress file or background thread is created.
C5_MissingTargetFailsFast ==
  (input = "request" /\ command = "DownloadAsync" /\ target \in {"absent", ""}) =>
     /\ task_ids = 0
     /\ events = <<>>
     /\ ~tracker
     /\ ~progressFile
     /\ thread = "none"
     /\ dpc \in {"main", "validate", "returned"}
     /\ dpc \in {"main", "validate"} => stdout = <<>>
     /\ dpc = "returned" => stdout = <<"error">>

C5_Witness ==
  /\ command = "DownloadAsync"
  /\ target = ""
  /\ dpc = "returned"
  /\ ~procAlive
  /\ stdout = <<"error">>

\* C6: after the success acknowledgement the ASMRTools dispatcher prints no
\* further response: the ack is the last response on stdout.
C6_NothingAfterAck ==
  plugin = "ASMRTools" =>
     \A i \in 1..Len(stdout) : stdout[i] = "success" => i = Len(stdout)

\* C15: in both plugins the acknowledgement is printed before any remote
\* fetch and before the background thread does any work.
C15_AckBeforeAnyFetch ==
  \A i \in 1..Len(events) :
     events[i] \in {"fetch", "bg"} => \E j \in 1..(i - 1) : events[j] = "ack"

(* --------------------- properties of a page fetch --------------------- *)

\* The failures a fetch has slept after: every failed attempt but the last
\* of max_retries.
SleptAfter ==
  IF fpc = "returned" THEN fetch_calls - 1
  ELSE IF fetch_calls = max_retries /\ fetch_calls > 0 THEN fetch_calls - 1
  ELSE fetch_calls

\* C22: a fetch makes at most max_retries calls of core.fetch (3 when the
\* caller and the configuration give none); it returns at the first call
\* that yields a valid page, every call before having failed; between two
\* calls it sleeps 2^attempt seconds (1, 2, 4, ..) and it does not sleep
\* after the last; after max_retries failures it raises one error that
\* carries the number of attempts and the cause of the last failure.
C22_FetchWithRetry ==
  fpc \notin {"idle", "begin"} =>
    /\ fetch_calls <= max_retries
    /\ (~retries_given /\ ~network_config) => max_retries = 3
    /\ Len(errors) = (IF fpc = "returned" THEN fetch_calls - 1 ELSE fetch_calls)
    /\ fpc = "returned"
         => /\ content # "" /\ content # "  " /\ ~is_error_page(content)
            /\ error_msg = NoErrorMsg
    /\ fpc # "returned" => content = ""
    /\ Len(sleeps) = SleptAfter
    /\ \A i \in 1..Len(sleeps) : sleeps[i] = 2 ^ (i - 1)
    /\ fpc = "raised"
         => /\ fetch_calls = max_retries
            /\ error_msg.retries = max_retries
            /\ max_retries > 0 => /\ error_msg.last = errors[max_retries]
                                  /\ error_msg.last # ""
    /\ fpc # "raised" => error_msg = NoErrorMsg

\* Three attempts failed for three different causes: the fetch slept 1 and
\* 2 seconds and raised the error that names the last cause.
C22_Witness ==
  /\ fpc = "raised"
  /\ ~retries_given
  /\ max_retries = 3
  /\ errors = <<"ConnectionError", "HTTP error", "empty page">>
  /\ sleeps = <<1, 2>>
  /\ error_msg = [retries |-> 3, last |-> "empty page"]

\* C23: an attempt that fails for a malformed input (core.fetch raises
\* InvalidURL) is the fetch's only attempt: nothing is slept and nothing is
\* fetched after it.
C23_MalformedInputNotRetried ==
  \A i \in 1..Len(errors) :
    errors[i] = "InvalidURL" => i = 1 /\ fetch_calls = 1 /\ sleeps = <<>>

\* The first attempt failed for a malformed input, the fetch slept a second
\* and made a second attempt.
C23_Witness ==
  /\ Len(errors) >= 1
  /\ errors[1] = "InvalidURL"
  /\ sleeps = <<1>>
  /\ fetch_calls = 2
  /\ fpc = "returned"

(* ---------------- properties of the batch title enrichment ------------- *)

\* C25: the batch starts no more than min(max_concurrent, number of URLs)
\* workers, all of them before it joins the first, and the call returns in
\* the end whatever the workers do: a join whose thread is still in its
\* fetch returns on its timeout.
C25_BatchAlwaysReturns ==
  /\ [](/\ started <= max_concurrent
        /\ started <= Len(video_urls)
        /\ Cardinality({w \in DOMAIN wpc : wpc[w] # "unstarted"}) = started
        /\ bpc \in {"join", "returned"}
             => (started = max_concurrent \/ started = Len(video_urls)))
  /\ <>(bpc = "returned")

\* The call has returned although a worker never came back from its fetch.
C25_Witness ==
  /\ bpc = "returned"
  /\ timed_out
  /\ started = 2
  /\ joined = 2
  /\ wpc[1] = "fetch"
  /\ wpc[2] = "done"

\* C27: a worker calls task_done only after it dequeued a URL in the same
\* iteration; task_done is called no more often than URLs were enqueued;
\* no worker thread ends by an exception.
C27_TaskDoneOnlyAfterDequeue ==
  /\ [](task_done_calls <= Len(video_urls))
  /\ [](\A w \in DOMAIN wpc : wpc[w] # "died")
  /\ [][ \A w \in DOMAIN wpc :
           (wpc[w] = "task_done" /\ wpc'[w] # "task_done") => wentry[w] # 0 ]_vars

\* Two workers, one URL left: one worker saw the queue non-empty, the other
\* took the URL; the first called task_done for nothing, and a later call
\* of task_done raised ValueError in its worker.
C27_Witness ==
  /\ Len(video_urls) = 2
  /\ task_done_calls = 3
  /\ unfinished_tasks = 0
  /\ \E w \in DOMAIN wpc : wpc[w] = "died"
  /\ \A i \in 1..2 : taken[i] = 1

\* The URLs of the batch.
InputUrls == {video_urls[i] : i \in 1..Len(video_urls)}

\* C29: no queue entry is dequeued twice; when the call returns and no join
\* has timed out, every entry was dequeued once and fetched, and the map
\* has a key for exactly the URLs given, each with the title a fetch of
\* that URL gave ("" when it failed).
C29_OneEntryPerUrl ==
  /\ \A i \in 1..Len(video_urls) : taken[i] <= 1
  /\ (bpc = "returned" /\ ~timed_out)
       => /\ \A i \in 1..Len(video_urls) : taken[i] = 1 /\ fetched[i] # "none"
          /\ \A u \in Urls : (results[u] # "absent") <=> (u \in InputUrls)
          /\ \A u \in InputUrls :
               \E i \in 1..Len(video_urls) :
                 video_urls[i] = u /\ results[u] = fetched[i]

\* Two URLs, two workers: each took one, one fetch failed; every worker had
\* ended when the call returned.
C29_Witness ==
  /\ bpc = "returned"
  /\ ~timed_out
  /\ video_urls = <<"u1", "u2">>
  /\ started = 2
  /\ wpc[1] = "done" /\ wpc[2] = "done"
  /\ taken = <<1, 1>>
  /\ fetched = <<"", "t1">>
  /\ results["u1"] = ""
  /\ results["u2"] = "t1"

====
